---- MODULE Spec2Model ----
(***************************************************************************)
(* Model of the COA field extraction engine (coa-scraper.cjs) of the Buzz  *)
(* Tracker back end: normalization utilities, terpene canonicalization and *)
(* ranking, THC computation, strain and type extraction, and of the strain *)
(* list of the server (server.js).                                         *)
(*                                                                         *)
(* Text is a sequence of one-character strings.  Numbers are exact         *)
(* decimals m / 10^e; the binary rounding of IEEE doubles is not modelled. *)
(***************************************************************************)
EXTENDS Integers, Sequences, FiniteSets, TLC

VARIABLES
    ovIn, ovOnce, ovTwice, ovPc,     \* fixPercentOverflow applied once and twice
    cnIn, cnOnce, cnTwice, cnPc,     \* canonTerp applied once and twice
    thText, thTotal, thPc,           \* parseTHC: the text, thc.totalPercent
    tpText,                          \* pickTopTerpenes: the text
    tpSeen,                          \* rows, as pushed line by line
    tpBest,                          \* what collectTerpenesAsPercent returns
    tpRanked,                        \* rows of pickTopTerpenes before slice
    tpNames,                         \* what pickTopTerpenes returns
    dominantTerpene, otherTerpenes,  \* the fields parseCoa builds from it
    tpPc,
    cvVal, cvUnit,                   \* a reading: its value and its unit
    cvMg, cvUg,                      \* mgPerGToPercent(val), ugPerGToPercent(val)
    cvCore,                          \* its percent in collectTerpenesAsPercent
    cvServer,                        \* its percent by toPercent
    cvText,                          \* its percent in extractTerpenesFromText
    cvLab,                           \* its percent in scrapeTrulieveLabPdf
    cvPc,
    lnText, lnHeader, lnLines,       \* collectTerpenesAsPercent: text, percentByHeader, lines
    lnScans,                         \* one record for each line the loop has passed
    lnRows,                          \* rows
    lnPc,
    jwIn, jwOut, jwPc,               \* joinWeirdDecimals: argument and result
    coParts, coText,                 \* parseCoa: the lines of the document, its text
    coStrain, coType, coNames,       \* strain, type, names
    coDominant, coOthers, coThc,     \* dominantTerpene, otherTerpenes, thc.totalPercent
    coServerType,                    \* parseType(text) of the server
    coPc,
    STRAINS,                         \* the in-memory list of the server
    reqBody,                         \* the body of the request served last
    resStatus, resBody,              \* the answer to it
    svPc,                            \* the step the server took last
    dbFile,                          \* what the data file holds
    dbPc,                            \* whether loadDB has run
    svUpsert,                        \* the strain the last step handed to upsertStrain
    upRan                            \* the stages the scan-upload request has run

OvVars == <<ovIn, ovOnce, ovTwice, ovPc>>
CnVars == <<cnIn, cnOnce, cnTwice, cnPc>>
ThVars == <<thText, thTotal, thPc>>
TpVars == <<tpText, tpSeen, tpBest, tpRanked, tpNames, dominantTerpene, otherTerpenes, tpPc>>
CvVars == <<cvVal, cvUnit, cvMg, cvUg, cvCore, cvServer, cvText, cvLab, cvPc>>
LnVars == <<lnText, lnHeader, lnLines, lnScans, lnRows, lnPc>>
JwVars == <<jwIn, jwOut, jwPc>>
CoVars == <<coParts, coText, coStrain, coType, coNames, coDominant, coOthers, coThc, coServerType, coPc>>
SvVars == <<STRAINS, reqBody, resStatus, resBody, svPc, dbFile, dbPc, svUpsert, upRan>>
vars == <<OvVars, CnVars, ThVars, TpVars, CvVars, LnVars, JwVars, CoVars, SvVars>>

\* the variables a group of operations leaves alone
NotOv == <<CnVars, ThVars, TpVars, CvVars, LnVars, JwVars, CoVars, SvVars>>
NotCn == <<OvVars, ThVars, TpVars, CvVars, LnVars, JwVars, CoVars, SvVars>>
NotTh == <<OvVars, CnVars, TpVars, CvVars, LnVars, JwVars, CoVars, SvVars>>
NotTp == <<OvVars, CnVars, ThVars, CvVars, LnVars, JwVars, CoVars, SvVars>>
NotCv == <<OvVars, CnVars, ThVars, TpVars, LnVars, JwVars, CoVars, SvVars>>
NotLn == <<OvVars, CnVars, ThVars, TpVars, CvVars, JwVars, CoVars, SvVars>>
NotJw == <<OvVars, CnVars, ThVars, TpVars, CvVars, LnVars, CoVars, SvVars>>
NotCo == <<OvVars, CnVars, ThVars, TpVars, CvVars, LnVars, JwVars, SvVars>>
NotSv == <<OvVars, CnVars, ThVars, TpVars, CvVars, LnVars, JwVars, CoVars>>

(***************************************************************************)
(* Numbers.  A JavaScript number that the parsers can produce is a finite  *)
(* decimal; it is kept as mantissa m and exponent e (value m / 10^e) in    *)
(* normal form (no trailing zero in m while e > 0), so that equal values   *)
(* are equal records.  null is a value of its own.                         *)
(***************************************************************************)
Null == [k |-> "null"]

RECURSIVE Pow10(_)
Pow10(n) == IF n = 0 THEN 1 ELSE 10 * Pow10(n - 1)

RECURSIVE Norm(_)
Norm(d) ==
    IF d.e > 0 /\ d.m % 10 = 0
    THEN Norm([k |-> "num", m |-> d.m \div 10, e |-> d.e - 1])
    ELSE d

Dec(m, e) == Norm([k |-> "num", m |-> m, e |-> e])

\* -1, 0, 1 as a < b, a = b, a > b; written so that no product leaves 32 bits
Cmp(a, b) ==
    IF a.e = b.e
    THEN (IF a.m < b.m THEN 0 - 1 ELSE IF a.m = b.m THEN 0 ELSE 1)
    ELSE IF a.e < b.e
    THEN LET p == Pow10(b.e - a.e)
             q == b.m \div p
             r == b.m % p
         IN  IF a.m > q THEN 1 ELSE IF a.m = q /\ r = 0 THEN 0 ELSE 0 - 1
    ELSE LET p == Pow10(a.e - b.e)
             q == a.m \div p
             r == a.m % p
         IN  IF b.m > q THEN 0 - 1 ELSE IF b.m = q /\ r = 0 THEN 0 ELSE 1

Gt(a, b) == Cmp(a, b) = 1

\* x / 10^n, exact
DivPow10(x, n) == Dec(x.m, x.e + n)

OverflowLimit == 100

(***************************************************************************)
(* function fixPercentOverflow(v) { if (v == null) return v;               *)
(*   while (v > 100) v = v / 10; return v; }                               *)
(***************************************************************************)
fixPercentOverflowOnce(v) ==
    IF v = Null THEN v
    ELSE IF Gt(v, Dec(OverflowLimit, 0)) THEN DivPow10(v, 1) ELSE v

fixPercentOverflowInclusive(v) ==
    LET RECURSIVE loop(_)
        loop(x) == IF Cmp(x, Dec(OverflowLimit, 0)) >= 0 THEN loop(DivPow10(x, 1)) ELSE x
    IN  IF v = Null THEN v ELSE loop(v)

RECURSIVE fixPercentOverflow(_)
fixPercentOverflow(v) ==
    IF v = Null THEN v
    ELSE IF Gt(v, Dec(OverflowLimit, 0)) THEN fixPercentOverflow(DivPow10(v, 1))
    ELSE v

(***************************************************************************)
(* Strings: a JavaScript string is a sequence of one-character strings.    *)
(* A function that returns a string or null returns NoStr for null.        *)
(***************************************************************************)
NoStr == <<"<null>">>

Digits == {"0", "1", "2", "3", "4", "5", "6", "7", "8", "9"}

UpperCase ==
    <<"A", "B", "C", "D", "E", "F", "G", "H", "I", "J", "K", "L", "M", "N",
      "O", "P", "Q", "R", "S", "T", "U", "V", "W", "X", "Y", "Z", "Α", "Β", "Δ">>

LowerCase ==
    <<"a", "b", "c", "d", "e", "f", "g", "h", "i", "j", "k", "l", "m", "n",
      "o", "p", "q", "r", "s", "t", "u", "v", "w", "x", "y", "z", "α", "β", "δ">>

AsciiLetters ==
    {UpperCase[i] : i \in 1..26} \cup {LowerCase[i] : i \in 1..26}

\* \w and \s of a regular expression without the u flag
WordChars == AsciiLetters \cup Digits \cup {"_"}
SpaceChars == {" ", "\t", "\n", "\r"}

\* String.prototype.toLowerCase, one character
LowerChar(c) ==
    IF \E i \in 1..Len(UpperCase) : UpperCase[i] = c
    THEN LowerCase[CHOOSE i \in 1..Len(UpperCase) : UpperCase[i] = c]
    ELSE c

ToLower(s) == [i \in 1..Len(s) |-> LowerChar(s[i])]

\* String.prototype.trim
Trim(s) ==
    LET RECURSIVE TrimLeft(_)
        TrimLeft(t) == IF t # <<>> /\ Head(t) \in SpaceChars THEN TrimLeft(Tail(t)) ELSE t
        RECURSIVE TrimRight(_)
        TrimRight(t) ==
            IF t # <<>> /\ t[Len(t)] \in SpaceChars
            THEN TrimRight(SubSeq(t, 1, Len(t) - 1))
            ELSE t
    IN  TrimRight(TrimLeft(s))

\* t occurs in s starting at index i
IsPrefixAt(s, i, t) ==
    /\ i >= 1
    /\ i + Len(t) - 1 <= Len(s)
    /\ \A j \in 1..Len(t) : s[i + j - 1] = t[j]

\* String.prototype.includes
Includes(s, t) == \E i \in 1..(Len(s) + 1) : IsPrefixAt(s, i, t)

\* s.replace(/c/g, t) for a single character c
RECURSIVE ReplaceChar(_, _, _)
ReplaceChar(s, c, t) ==
    IF s = <<>> THEN <<>>
    ELSE (IF Head(s) = c THEN t ELSE <<Head(s)>>) \o ReplaceChar(Tail(s), c, t)

\* \b at the gap before index i of s (between s[i-1] and s[i])
WordBoundary(s, i) ==
    LET before == i > 1 /\ i - 1 <= Len(s) /\ s[i - 1] \in WordChars
        after == i >= 1 /\ i <= Len(s) /\ s[i] \in WordChars
    IN  before # after

(***************************************************************************)
(* Numeric parsing and the scanning helpers the regular expressions share. *)
(***************************************************************************)
IsDigitAt(s, i) == i >= 1 /\ i <= Len(s) /\ s[i] \in Digits

DigitVal(c) ==
    CASE c = "0" -> 0 [] c = "1" -> 1 [] c = "2" -> 2 [] c = "3" -> 3 [] c = "4" -> 4
      [] c = "5" -> 5 [] c = "6" -> 6 [] c = "7" -> 7 [] c = "8" -> 8 [] c = "9" -> 9

\* the integer a run of digits writes
RECURSIVE DigitsVal(_)
DigitsVal(ds) ==
    IF ds = <<>> THEN 0
    ELSE 10 * DigitsVal(SubSeq(ds, 1, Len(ds) - 1)) + DigitVal(ds[Len(ds)])

\* the index after the longest run of digits (\d+, \d*) that starts at i
RECURSIVE DigitRunEnd(_, _)
DigitRunEnd(s, i) == IF IsDigitAt(s, i) THEN DigitRunEnd(s, i + 1) ELSE i

\* the index after the longest run of white space (\s*) that starts at i
RECURSIVE SkipSpaces(_, _)
SkipSpaces(s, i) ==
    IF i >= 1 /\ i <= Len(s) /\ s[i] \in SpaceChars THEN SkipSpaces(s, i + 1) ELSE i

RemoveChar(s, c) == ReplaceChar(s, c, <<>>)

\* a match of /-?\d+(?:\.\d+)?/ starts at i
FloatStartsAt(s, i) ==
    \/ IsDigitAt(s, i)
    \/ (i >= 1 /\ i <= Len(s) /\ s[i] = "-" /\ IsDigitAt(s, i + 1))

(***************************************************************************)
(* function toFloatSafe(x): parseFloat of the first match of               *)
(* /-?\d+(?:\.\d+)?/ in x after every comma is removed; null when there is *)
(* no match.                                                               *)
(***************************************************************************)
toFloatSafe(x) ==
    LET \* the leftmost index at or after i where a match starts, 0 if there is none
        RECURSIVE FirstStart(_, _)
        FirstStart(s, i) ==
            IF i > Len(s) THEN 0
            ELSE IF FloatStartsAt(s, i) THEN i
            ELSE FirstStart(s, i + 1)
        \* the index after (?:\.\d+)? from b
        FracEnd(s, b) ==
            IF b <= Len(s) /\ s[b] = "." /\ IsDigitAt(s, b + 1)
            THEN DigitRunEnd(s, b + 1)
            ELSE b
        \* parseFloat of the token: digits a..b-1, then, when c > b, '.' and digits b+1..c-1
        Token(s, sign, a, b, c) ==
            IF c > b
            THEN Dec(sign * DigitsVal(SubSeq(s, a, b - 1) \o SubSeq(s, b + 1, c - 1)), c - b - 1)
            ELSE Dec(sign * DigitsVal(SubSeq(s, a, b - 1)), 0)
        Whole(s, sign, a, b) == Token(s, sign, a, b, FracEnd(s, b))
        MatchAt(s, i) ==
            IF i = 0 THEN Null
            ELSE IF s[i] = "-" THEN Whole(s, 0 - 1, i + 1, DigitRunEnd(s, i + 1))
            ELSE Whole(s, 1, i, DigitRunEnd(s, i))
        FirstMatch(s) == MatchAt(s, FirstStart(s, 1))
    IN  IF x = NoStr THEN Null ELSE FirstMatch(RemoveChar(x, ","))

\* the conversion, had it divided by 100
mgPerGToPercentByHundred(x) == IF x = Null THEN Null ELSE DivPow10(x, 2)

\* const mgPerGToPercent = (x) => (x==null?null:(x/10));
mgPerGToPercent(x) == IF x = Null THEN Null ELSE DivPow10(x, 1)

\* const ugPerGToPercent = (x) => (x==null?null:(x/10000));
ugPerGToPercent(x) == IF x = Null THEN Null ELSE DivPow10(x, 4)

(***************************************************************************)
(* function joinWeirdDecimals(s): two global replacements.                 *)
(*   /(\d)\s*[.,]\s*(\d{2,4})/g           -> '$1.$2'                       *)
(*   /(\d)\s+(\d{2,4})(?=\s*[%\b])/g      -> '$1.$2'                       *)
(* (inside a character class \b is the backspace character)                *)
(***************************************************************************)
\* the backspace character, U+0008
Backspace == "<BS>"

MinJoinDigits == 2
MaxJoinDigits == 4

\* the index after a match of the first pattern that starts at i, 0 if none
JoinSepEnd(s, i) ==
    LET a == SkipSpaces(s, i + 1)
        b == SkipSpaces(s, a + 1)
        c == DigitRunEnd(s, b)
        n == IF c - b > MaxJoinDigits THEN MaxJoinDigits ELSE c - b
    IN  IF /\ IsDigitAt(s, i)
           /\ a <= Len(s) /\ s[a] \in {".", ","}
           /\ n >= MinJoinDigits
        THEN b + n
        ELSE 0

RECURSIVE JoinSep(_, _)
JoinSep(s, i) ==
    IF i > Len(s) THEN <<>>
    ELSE LET e == JoinSepEnd(s, i)
         IN  IF e = 0 THEN <<s[i]>> \o JoinSep(s, i + 1)
             ELSE LET b == SkipSpaces(s, SkipSpaces(s, i + 1) + 1)
                  IN  <<s[i], ".">> \o SubSeq(s, b, e - 1) \o JoinSep(s, e)

\* the index after a match of the second pattern that starts at i, 0 if none:
\* the digits taken must be followed by optional space and % or backspace
JoinGapEnd(s, i) ==
    LET a == SkipSpaces(s, i + 1)
        ends == {e \in (a + MinJoinDigits)..(a + MaxJoinDigits) :
                    /\ \A j \in a..(e - 1) : IsDigitAt(s, j)
                    /\ LET u == SkipSpaces(s, e)
                       IN  u <= Len(s) /\ s[u] \in {"%", Backspace}}
    IN  IF IsDigitAt(s, i) /\ a > i + 1 /\ ends # {}
        THEN CHOOSE e \in ends : \A f \in ends : f <= e
        ELSE 0

RECURSIVE JoinGap(_, _)
JoinGap(s, i) ==
    IF i > Len(s) THEN <<>>
    ELSE LET e == JoinGapEnd(s, i)
         IN  IF e = 0 THEN <<s[i]>> \o JoinGap(s, i + 1)
             ELSE <<s[i], ".">> \o SubSeq(s, SkipSpaces(s, i + 1), e - 1) \o JoinGap(s, e)

joinWeirdDecimals(s) == JoinGap(JoinSep(s, 1), 1)

\* s.replace(/\s{2,}/g, ' '): a run of two or more white-space characters
\* becomes one space; a lone white-space character stays what it is
RECURSIVE CollapseSpaces(_, _)
CollapseSpaces(s, i) ==
    IF i > Len(s) THEN <<>>
    ELSE LET e == SkipSpaces(s, i)
         IN  IF e - i >= 2 THEN <<" ">> \o CollapseSpaces(s, e)
             ELSE <<s[i]>> \o CollapseSpaces(s, i + 1)

(***************************************************************************)
(* Known terpenes and synonyms                                             *)
(***************************************************************************)
KNOWN_TERPENES ==
    <<
      <<"m", "y", "r", "c", "e", "n", "e">>,
      <<"l", "i", "m", "o", "n", "e", "n", "e">>,
      <<"l", "i", "n", "a", "l", "o", "o", "l">>,
      <<"t", "e", "r", "p", "i", "n", "o", "l", "e", "n", "e">>,
      <<"c", "a", "r", "y", "o", "p", "h", "y", "l", "l", "e", "n", "e">>,
      <<"h", "u", "m", "u", "l", "e", "n", "e">>,
      <<"a", "l", "p", "h", "a", "-", "p", "i", "n", "e", "n", "e">>,
      <<"b", "e", "t", "a", "-", "p", "i", "n", "e", "n", "e">>,
      <<"p", "i", "n", "e", "n", "e">>,
      <<"o", "c", "i", "m", "e", "n", "e">>,
      <<"f", "a", "r", "n", "e", "s", "e", "n", "e">>,
      <<"n", "e", "r", "o", "l", "i", "d", "o", "l">>,
      <<"b", "i", "s", "a", "b", "o", "l", "o", "l">>,
      <<"e", "u", "c", "a", "l", "y", "p", "t", "o", "l">>,
      <<"c", "a", "m", "p", "h", "e", "n", "e">>,
      <<"b", "o", "r", "n", "e", "o", "l">>,
      <<"c", "a", "r", "y", "o", "p", "h", "y", "l", "l", "e", "n", "e", "-", "o", "x", "i", "d", "e">>,
      <<"c", "e", "d", "r", "o", "l">>,
      <<"g", "u", "a", "i", "o", "l">>,
      <<"s", "a", "b", "i", "n", "e", "n", "e">>,
      <<"t", "e", "r", "p", "i", "n", "e", "o", "l">>,
      <<"g", "e", "r", "a", "n", "i", "o", "l">>,
      <<"i", "s", "o", "p", "u", "l", "e", "g", "o", "l">>,
      <<"p", "u", "l", "e", "g", "o", "n", "e">>,
      <<"p", "h", "y", "t", "o", "l">>,
      <<"f", "e", "n", "c", "h", "y", "l", " ", "a", "l", "c", "o", "h", "o", "l">>
    >>

\* each entry is <<synonym, canonical key>>
SYN ==
    <<
      <<<<"β", "-", "c", "a", "r", "y", "o", "p", "h", "y", "l", "l", "e", "n", "e">>,
        <<"c", "a", "r", "y", "o", "p", "h", "y", "l", "l", "e", "n", "e">>>>,
      <<<<"b", "-", "c", "a", "r", "y", "o", "p", "h", "y", "l", "l", "e", "n", "e">>,
        <<"c", "a", "r", "y", "o", "p", "h", "y", "l", "l", "e", "n", "e">>>>,
      <<<<"b", "e", "t", "a", "-", "c", "a", "r", "y", "o", "p", "h", "y", "l", "l", "e", "n", "e">>,
        <<"c", "a", "r", "y", "o", "p", "h", "y", "l", "l", "e", "n", "e">>>>,
      <<<<"c", "a", "r", "y", "o", "p", "h", "y", "l", "l", "e", "n", "e", " ", "o", "x", "i", "d", "e">>,
        <<"c", "a", "r", "y", "o", "p", "h", "y", "l", "l", "e", "n", "e", "-", "o", "x", "i", "d", "e">>>>,
      <<<<"α", "-", "h", "u", "m", "u", "l", "e", "n", "e">>,
        <<"h", "u", "m", "u", "l", "e", "n", "e">>>>,
      <<<<"a", "-", "h", "u", "m", "u", "l", "e", "n", "e">>,
        <<"h", "u", "m", "u", "l", "e", "n", "e">>>>,
      <<<<"d", "-", "l", "i", "m", "o", "n", "e", "n", "e">>,
        <<"l", "i", "m", "o", "n", "e", "n", "e">>>>,
      <<<<"1", ",", "8", "-", "c", "i", "n", "e", "o", "l", "e">>,
        <<"e", "u", "c", "a", "l", "y", "p", "t", "o", "l">>>>,
      <<<<"α", "-", "p", "i", "n", "e", "n", "e">>,
        <<"a", "l", "p", "h", "a", "-", "p", "i", "n", "e", "n", "e">>>>,
      <<<<"a", "-", "p", "i", "n", "e", "n", "e">>,
        <<"a", "l", "p", "h", "a", "-", "p", "i", "n", "e", "n", "e">>>>,
      <<<<"β", "-", "p", "i", "n", "e", "n", "e">>,
        <<"b", "e", "t", "a", "-", "p", "i", "n", "e", "n", "e">>>>,
      <<<<"b", "-", "p", "i", "n", "e", "n", "e">>,
        <<"b", "e", "t", "a", "-", "p", "i", "n", "e", "n", "e">>>>,
      <<<<"t", "r", "a", "n", "s", "-", "c", "a", "r", "y", "o", "p", "h", "y", "l", "l", "e", "n", "e">>,
        <<"c", "a", "r", "y", "o", "p", "h", "y", "l", "l", "e", "n", "e">>>>,
      <<<<"f", "e", "n", "c", "h", "o", "l">>,
        <<"f", "e", "n", "c", "h", "y", "l", " ", "a", "l", "c", "o", "h", "o", "l">>>>,
      <<<<"β", "-", "m", "y", "r", "c", "e", "n", "e">>,
        <<"m", "y", "r", "c", "e", "n", "e">>>>,
      <<<<"b", "-", "m", "y", "r", "c", "e", "n", "e">>,
        <<"m", "y", "r", "c", "e", "n", "e">>>>
    >>

SynKeys == {SYN[i][1] : i \in 1..Len(SYN)}
SynValues == {SYN[i][2] : i \in 1..Len(SYN)}

\* SYN[raw], NoStr when raw is no key
SynLookup(raw) ==
    IF raw \in SynKeys
    THEN SYN[CHOOSE i \in 1..Len(SYN) : SYN[i][1] = raw][2]
    ELSE NoStr

W_pinene == <<"p", "i", "n", "e", "n", "e">>
W_alpha == <<"a", "l", "p", "h", "a">>
W_beta == <<"b", "e", "t", "a">>

\* [-\s]?pinene at index j of the lower-cased name
OptSepPinene(l, j) ==
    \/ IsPrefixAt(l, j, W_pinene)
    \/ /\ j <= Len(l)
       /\ l[j] \in ({"-"} \cup SpaceChars)
       /\ IsPrefixAt(l, j + 1, W_pinene)

\* /alpha[-\s]?pinene|a[-\s]?pinene/i.test(name)
TestAlphaPinene(name) ==
    LET l == ToLower(name)
    IN  \E i \in 1..Len(l) :
            \/ IsPrefixAt(l, i, W_alpha) /\ OptSepPinene(l, i + Len(W_alpha))
            \/ l[i] = "a" /\ OptSepPinene(l, i + 1)

\* /beta[-\s]?pinene|b[-\s]?pinene/i.test(name)
TestBetaPinene(name) ==
    LET l == ToLower(name)
    IN  \E i \in 1..Len(l) :
            \/ IsPrefixAt(l, i, W_beta) /\ OptSepPinene(l, i + Len(W_beta))
            \/ l[i] = "b" /\ OptSepPinene(l, i + 1)

\* /\bpinene\b/i.test(name)
TestPineneWord(name) ==
    LET l == ToLower(name)
    IN  \E i \in 1..Len(l) :
            /\ IsPrefixAt(l, i, W_pinene)
            /\ WordBoundary(l, i)
            /\ WordBoundary(l, i + Len(W_pinene))

\* for (const t of KNOWN_TERPENES) if (greek.includes(t)) return t; return raw;
FirstKnownIn(greek, raw) ==
    IF \E i \in 1..Len(KNOWN_TERPENES) : Includes(greek, KNOWN_TERPENES[i])
    THEN KNOWN_TERPENES[
            CHOOSE i \in 1..Len(KNOWN_TERPENES) :
                /\ Includes(greek, KNOWN_TERPENES[i])
                /\ \A j \in 1..(i - 1) : ~Includes(greek, KNOWN_TERPENES[j])]
    ELSE raw

(***************************************************************************)
(* function canonTerp(name): null for an empty name, else the synonym      *)
(* table, the three pinene tests, the known-terpene scan, the raw name.    *)
(***************************************************************************)
canonTerp(name) ==
    IF name = <<>> \/ name = NoStr THEN NoStr
    ELSE LET raw == ToLower(Trim(name))
             greek == ReplaceChar(ReplaceChar(raw, "α", <<"a", "l", "p", "h", "a", "-">>),
                                  "β", <<"b", "e", "t", "a", "-">>)
         IN  IF SynLookup(raw) # NoStr THEN SynLookup(raw)
             ELSE IF TestAlphaPinene(name) THEN <<"a", "l", "p", "h", "a", "-", "p", "i", "n", "e", "n", "e">>
             ELSE IF TestBetaPinene(name) THEN <<"b", "e", "t", "a", "-", "p", "i", "n", "e", "n", "e">>
             ELSE IF TestPineneWord(name) THEN W_pinene
             ELSE FirstKnownIn(greek, raw)

(***************************************************************************)
(* THC parsing                                                             *)
(***************************************************************************)

\* s.replace(/[\r\n]+/g, ' '): every run of line breaks becomes one space
RECURSIVE ReplaceLineBreaks(_, _)
ReplaceLineBreaks(s, i) ==
    IF i > Len(s) THEN <<>>
    ELSE IF s[i] \in {"\r", "\n"}
    THEN IF i > 1 /\ s[i - 1] \in {"\r", "\n"}
         THEN ReplaceLineBreaks(s, i + 1)
         ELSE <<" ">> \o ReplaceLineBreaks(s, i + 1)
    ELSE <<s[i]>> \o ReplaceLineBreaks(s, i + 1)

\* function normalizeForTHC(text)
normalizeForTHC(text) ==
    joinWeirdDecimals(CollapseSpaces(ReplaceLineBreaks(text, 1), 1))

W_total == <<"t", "o", "t", "a", "l">>
W_active == <<"a", "c", "t", "i", "v", "e">>
W_thc == <<"t", "h", "c">>
W_delta == <<"d", "e", "l", "t", "a">>
W_elta == <<"e", "l", "t", "a">>

(***************************************************************************)
(* The label patterns, matched on the lower-cased text (every pattern has  *)
(* the i flag).  Each gives the index after the label that starts at i, or *)
(* 0 when no label starts there.                                           *)
(***************************************************************************)

\* /\bTotal\s+(?:Active\s+)?THC\b/
TotalThcEnd(l, i) ==
    LET a == i + Len(W_total)
        b == SkipSpaces(l, a)
        c == b + Len(W_active)
        d == SkipSpaces(l, c)
        viaActive == /\ IsPrefixAt(l, b, W_active) /\ d > c
                     /\ IsPrefixAt(l, d, W_thc) /\ WordBoundary(l, d + Len(W_thc))
        direct == IsPrefixAt(l, b, W_thc) /\ WordBoundary(l, b + Len(W_thc))
    IN  IF ~(WordBoundary(l, i) /\ IsPrefixAt(l, i, W_total) /\ b > a) THEN 0
        ELSE IF viaActive THEN d + Len(W_thc)
        ELSE IF direct THEN b + Len(W_thc)
        ELSE 0

\* /\bTHC[\s\-]?A\b/ ; /\bTHCa\b/ is the same pattern without the separator
ThcaEnd(l, i) ==
    LET a == i + Len(W_thc)
        sep == a <= Len(l) /\ l[a] \in (SpaceChars \cup {"-"})
        viaSep == sep /\ IsPrefixAt(l, a + 1, <<"a">>) /\ WordBoundary(l, a + 2)
        direct == IsPrefixAt(l, a, <<"a">>) /\ WordBoundary(l, a + 1)
    IN  IF ~(WordBoundary(l, i) /\ IsPrefixAt(l, i, W_thc)) THEN 0
        ELSE IF viaSep THEN a + 2
        ELSE IF direct THEN a + 1
        ELSE 0

ThcaPlainEnd(l, i) ==
    LET a == i + Len(W_thc)
    IN  IF /\ WordBoundary(l, i) /\ IsPrefixAt(l, i, W_thc)
           /\ IsPrefixAt(l, a, <<"a">>) /\ WordBoundary(l, a + 1)
        THEN a + 1
        ELSE 0

\* \s*[-]?\s* : the index after it, from j
OptDash(l, j) ==
    LET a == SkipSpaces(l, j)
    IN  IF a <= Len(l) /\ l[a] = "-" THEN SkipSpaces(l, a + 1) ELSE a

\* /\b(?:Delta|Δ)\s*[-]?\s*9\s*[-]?\s*THC\b/
Delta9ThcEnd(l, i) ==
    LET a == IF IsPrefixAt(l, i, W_delta) THEN i + Len(W_delta)
             ELSE IF IsPrefixAt(l, i, <<"δ">>) THEN i + 1
             ELSE 0
        b == OptDash(l, a)
        c == OptDash(l, b + 1)
    IN  IF /\ a # 0 /\ WordBoundary(l, i)
           /\ IsPrefixAt(l, b, <<"9">>)
           /\ IsPrefixAt(l, c, W_thc) /\ WordBoundary(l, c + Len(W_thc))
        THEN c + Len(W_thc)
        ELSE 0

\* /\bD(?:elta)?-?9\b/
D9End(l, i) ==
    LET a == IF IsPrefixAt(l, i + 1, W_elta) THEN i + 1 + Len(W_elta) ELSE i + 1
        b == IF a <= Len(l) /\ l[a] = "-" THEN a + 1 ELSE a
        long == IsPrefixAt(l, b, <<"9">>) /\ WordBoundary(l, b + 1)
        \* without "elta": D-?9
        a0 == i + 1
        b0 == IF a0 <= Len(l) /\ l[a0] = "-" THEN a0 + 1 ELSE a0
        short == IsPrefixAt(l, b0, <<"9">>) /\ WordBoundary(l, b0 + 1)
    IN  IF ~(WordBoundary(l, i) /\ IsPrefixAt(l, i, <<"d">>)) THEN 0
        ELSE IF long THEN b + 1
        ELSE IF short THEN b0 + 1
        ELSE 0

\* the units that follow the number: /%/ and /mg\s*\/\s*g/
PercentAt(l, j) == j >= 1 /\ j <= Len(l) /\ l[j] = "%"

MgPerGAt(l, j) ==
    LET a == SkipSpaces(l, j + 2)
        b == SkipSpaces(l, a + 1)
    IN  /\ IsPrefixAt(l, j, <<"m", "g">>)
        /\ a <= Len(l) /\ l[a] = "/"
        /\ b <= Len(l) /\ l[b] = "g"

\* the label and the unit a pattern is built from
LabelEnd(label, l, i) ==
    CASE label = "Total THC" -> TotalThcEnd(l, i)
      [] label = "THC-A" -> ThcaEnd(l, i)
      [] label = "THCa" -> ThcaPlainEnd(l, i)
      [] label = "Delta-9 THC" -> Delta9ThcEnd(l, i)
      [] label = "D9" -> D9End(l, i)

UnitAt(unit, l, j) ==
    CASE unit = "%" -> PercentAt(l, j)
      [] unit = "mg/g" -> MgPerGAt(l, j)

\* [^0-9]{0,40}
ThcWindow == 40
MaxFracDigits == 2

(***************************************************************************)
(* The part every THC pattern shares after its label:                      *)
(*   [^0-9]{0,40}(\d{1,n}(?:[.,]\d{1,2})?)\s*UNIT                          *)
(* from index e (the index after the label).  The window holds no digit,   *)
(* so the number starts at the first digit at or after e, at most 40       *)
(* characters on; the number is followed by optional space and the unit.   *)
(* The result is <<first, last>> of the captured number, <<>> if none.     *)
(***************************************************************************)
CaptureAfter(l, e, maxInt, unit) ==
    LET firstDigits == {c \in e..(e + ThcWindow) :
                          IsDigitAt(l, c) /\ \A j \in e..(c - 1) : ~IsDigitAt(l, j)}
    IN  IF firstDigits = {} THEN <<>>
        ELSE LET c == CHOOSE x \in firstDigits : TRUE
                 plain == {c + n : n \in 1..maxInt}
                 frac == {x + 1 + f : x \in plain, f \in 1..MaxFracDigits}
                 ends == {x \in plain :
                             /\ \A j \in c..(x - 1) : IsDigitAt(l, j)
                             /\ UnitAt(unit, l, SkipSpaces(l, x))}
                         \cup
                         {y \in frac :
                             \E x \in plain, f \in 1..MaxFracDigits :
                                 /\ y = x + 1 + f
                                 /\ \A j \in c..(x - 1) : IsDigitAt(l, j)
                                 /\ x <= Len(l) /\ l[x] \in {".", ","}
                                 /\ \A j \in (x + 1)..(y - 1) : IsDigitAt(l, j)
                                 /\ UnitAt(unit, l, SkipSpaces(l, y))}
             IN  IF ends = {} THEN <<>>
                 ELSE <<c, (CHOOSE y \in ends : \A z \in ends : z <= y) - 1>>

(***************************************************************************)
(* function firstNumber(re, s): toFloatSafe of the first capture of the    *)
(* leftmost match of the pattern, null when the pattern does not match.    *)
(* Every pattern has the i flag: it is matched on the lower-cased text.    *)
(***************************************************************************)
firstNumber(label, maxInt, unit, s) ==
    LET CaptureText(l, cap) == IF cap = <<>> THEN NoStr ELSE SubSeq(l, cap[1], cap[2])
        \* the first capture of a match whose label ends before e (e = 0: no label)
        CaptureFrom(l, e) ==
            IF e = 0 THEN NoStr ELSE CaptureText(l, CaptureAfter(l, e, maxInt, unit))
        \* the first capture of the leftmost match that starts at or after i
        RECURSIVE FirstCapture(_, _)
        FirstCapture(l, i) ==
            IF i > Len(l) THEN NoStr
            ELSE IF CaptureFrom(l, LabelEnd(label, l, i)) # NoStr
            THEN CaptureFrom(l, LabelEnd(label, l, i))
            ELSE FirstCapture(l, i + 1)
    IN  toFloatSafe(FirstCapture(ToLower(s), 1))

PctIntDigits == 2
MgIntDigits == 3

\* a ?? b
Coalesce(a, b) == IF a # Null THEN a ELSE b

totalPct(flat) == firstNumber("Total THC", PctIntDigits, "%", flat)
totalMg(flat) == firstNumber("Total THC", MgIntDigits, "mg/g", flat)

thcaPct(flat) ==
    Coalesce(firstNumber("THC-A", PctIntDigits, "%", flat),
             firstNumber("THCa", PctIntDigits, "%", flat))
d9Pct(flat) ==
    Coalesce(firstNumber("Delta-9 THC", PctIntDigits, "%", flat),
             firstNumber("D9", PctIntDigits, "%", flat))
thcaMg(flat) ==
    Coalesce(firstNumber("THC-A", MgIntDigits, "mg/g", flat),
             firstNumber("THCa", MgIntDigits, "mg/g", flat))
d9Mg(flat) ==
    Coalesce(firstNumber("Delta-9 THC", MgIntDigits, "mg/g", flat),
             firstNumber("D9", MgIntDigits, "mg/g", flat))

\* let thca = thcaPct ?? (thcaMg!=null ? mgPerGToPercent(thcaMg) : null);
thcaOf(flat) == Coalesce(thcaPct(flat), mgPerGToPercent(thcaMg(flat)))
d9Of(flat) == Coalesce(d9Pct(flat), mgPerGToPercent(d9Mg(flat)))

\* the decarboxylation factor 0.877, in thousandths
ThcaFactor == 877

\* +(0.877*(thca ?? 0) + (d9 ?? 0)).toFixed(2), for terms that are not negative:
\* the exact sum, in units of 10^-E, rounded half up to 2 decimals
computedTotal(thca, d9) ==
    LET OrZero(x) == IF x = Null THEN Dec(0, 0) ELSE x
        Rounded(a, d, E) ==
            Dec((ThcaFactor * a.m * Pow10(E - a.e - 3) + d.m * Pow10(E - d.e)
                     + 5 * Pow10(E - 3)) \div Pow10(E - 2), 2)
        Sum(a, d) == Rounded(a, d, IF a.e + 3 > d.e THEN a.e + 3 ELSE d.e)
    IN  Sum(OrZero(thca), OrZero(d9))

\* the fallback, had it asked for both terms
fallbackTotalBothRequired(thca, d9) ==
    IF thca # Null /\ d9 # Null THEN computedTotal(thca, d9) ELSE Null

\* if (thca!=null || d9!=null) return { totalPercent: +(...).toFixed(2) };
\* return { totalPercent: null };
fallbackTotal(thca, d9) ==
    IF thca # Null \/ d9 # Null THEN computedTotal(thca, d9) ELSE Null

(***************************************************************************)
(* function parseTHC(text): the total THC percent, null when none is       *)
(* found.  The returns in their order: pct, mgPerGToPercent(mg), the       *)
(* fallback.                                                               *)
(***************************************************************************)
parseTHC(text) ==
    LET Total(pct, mg, fallback) ==
            IF pct # Null THEN pct
            ELSE IF mg # Null THEN mgPerGToPercent(mg)
            ELSE fallback
        OfFlat(flat) ==
            Total(totalPct(flat), totalMg(flat), fallbackTotal(thcaOf(flat), d9Of(flat)))
    IN  OfFlat(normalizeForTHC(text))
(***************************************************************************)
(* Terpene extraction                                                      *)
(***************************************************************************)

\* the units of a terpene reading, as unitFrom names them
UnitPercent == <<"%">>
UnitMgPerG == <<"m", "g", "/", "g">>
UnitUgPerG == <<"u", "g", "/", "g">>

\* \s*\/\s*g from j: the index after it, 0 when it does not match
PerGramEnd(l, j) ==
    LET Slash(a) ==
            IF /\ a <= Len(l) /\ l[a] = "/"
               /\ SkipSpaces(l, a + 1) <= Len(l) /\ l[SkipSpaces(l, a + 1)] = "g"
            THEN SkipSpaces(l, a + 1) + 1
            ELSE 0
    IN  Slash(SkipSpaces(l, j))

\* /µg\s*\/\s*g|ug\s*\/\s*g/ at j
UgPerGAt(l, j) ==
    (IsPrefixAt(l, j, <<"µ", "g">>) \/ IsPrefixAt(l, j, <<"u", "g">>)) /\ PerGramEnd(l, j + 2) # 0

(***************************************************************************)
(* function unitFrom(s): '%', 'mg/g', 'ug/g' or null                       *)
(***************************************************************************)
unitFrom(s) ==
    LET OfLower(t) ==
            IF Includes(t, UnitPercent) THEN UnitPercent
            ELSE IF \E j \in 1..Len(t) : MgPerGAt(t, j) THEN UnitMgPerG
            ELSE IF \E j \in 1..Len(t) : UgPerGAt(t, j) THEN UnitUgPerG
            ELSE NoStr
    IN  IF s = <<>> \/ s = NoStr THEN NoStr ELSE OfLower(ToLower(s))

\* the context, had every document declared it
hasPercentContextAlways(text) == TRUE

(***************************************************************************)
(* function hasPercentContext(text): one of the column headers that        *)
(* declare percent occurs in the text (i flag: on the lower-cased text)    *)
(***************************************************************************)
hasPercentContext(text) ==
    LET \* (?:w\/w|wt\/wt) at j: the index after it, 0 when it does not match
        WwEnd(l, j) ==
            IF IsPrefixAt(l, j, <<"w", "/", "w">>) THEN j + 3
            ELSE IF IsPrefixAt(l, j, <<"w", "t", "/", "w", "t">>) THEN j + 5
            ELSE 0
        \* Result\s*%\s*\(total\)
        ResultTail(l, a) ==
            a <= Len(l) /\ l[a] = "%" /\ IsPrefixAt(l, SkipSpaces(l, a + 1), <<"(", "t", "o", "t", "a", "l", ")">>)
        ResultTotalAt(l, i) ==
            IsPrefixAt(l, i, <<"r", "e", "s", "u", "l", "t">>) /\ ResultTail(l, SkipSpaces(l, i + 6))
        \* Amount\s*\(%\s*(?:w\/w|wt\/wt)?\)
        AmountClose(l, b) ==
            \/ IsPrefixAt(l, b, <<")">>)
            \/ (WwEnd(l, b) # 0 /\ IsPrefixAt(l, WwEnd(l, b), <<")">>))
        AmountTail(l, a) ==
            IsPrefixAt(l, a, <<"(", "%">>) /\ AmountClose(l, SkipSpaces(l, a + 2))
        AmountPercentAt(l, i) ==
            IsPrefixAt(l, i, <<"a", "m", "o", "u", "n", "t">>) /\ AmountTail(l, SkipSpaces(l, i + 6))
        \* %\s*(?:w\/w|wt\/wt)
        PercentWwAt(l, i) ==
            IsPrefixAt(l, i, <<"%">>) /\ WwEnd(l, SkipSpaces(l, i + 1)) # 0
        HeaderAt(l, i) ==
            \/ ResultTotalAt(l, i)
            \/ AmountPercentAt(l, i)
            \/ PercentWwAt(l, i)
            \/ IsPrefixAt(l, i, <<"%", " ", "o", "f", " ", "t", "o", "t", "a", "l", " ", "t", "e", "r", "p", "e", "n", "e", "s">>)
            \/ IsPrefixAt(l, i, <<"p", "e", "r", "c", "e", "n", "t", " ", "o", "f", " ", "t", "o", "t", "a", "l">>)
        HeaderIn(l) == \E i \in 1..Len(l) : HeaderAt(l, i)
    IN  HeaderIn(ToLower(text))

(***************************************************************************)
(* text.split(/\r?\n/): the lines of t from index a on, i scanning         *)
(***************************************************************************)
RECURSIVE SplitLines(_, _, _)
SplitLines(t, i, a) ==
    IF i > Len(t) THEN <<SubSeq(t, a, Len(t))>>
    ELSE IF t[i] = "\n"
    THEN <<SubSeq(t, a, IF i > a /\ t[i - 1] = "\r" THEN i - 2 ELSE i - 1)>>
             \o SplitLines(t, i + 1, i + 1)
    ELSE SplitLines(t, i + 1, a)

(***************************************************************************)
(* nameRegex, with the i flag:                                             *)
(*   ([A-Za-zµβα\-\.\/\(\)\s]*?(?:caryophyllene|pinene|...|fenchyl(?:\s+   *)
(*   alcohol)?))                                                           *)
(***************************************************************************)
NameKeywords ==
    << <<"c", "a", "r", "y", "o", "p", "h", "y", "l", "l", "e", "n", "e">>, <<"p", "i", "n", "e", "n", "e">>, <<"m", "y", "r", "c", "e", "n", "e">>, <<"l", "i", "m", "o", "n", "e", "n", "e">>, <<"l", "i", "n", "a", "l", "o", "o", "l">>,
       <<"h", "u", "m", "u", "l", "e", "n", "e">>, <<"t", "e", "r", "p", "i", "n", "o", "l", "e", "n", "e">>, <<"o", "c", "i", "m", "e", "n", "e">>, <<"f", "a", "r", "n", "e", "s", "e", "n", "e">>, <<"n", "e", "r", "o", "l", "i", "d", "o", "l">>,
       <<"b", "i", "s", "a", "b", "o", "l", "o", "l">>, <<"e", "u", "c", "a", "l", "y", "p", "t", "o", "l">>, <<"f", "e", "n", "c", "h", "y", "l">> >>

\* the class of the pattern, lower-cased
NameChars ==
    {LowerCase[i] : i \in 1..26} \cup {"µ", "β", "α", "-", ".", "/", "(", ")"}
        \cup SpaceChars

(***************************************************************************)
(* line.match(nameRegex)[1], null when the line has no match.  The         *)
(* leftmost match ends with the first keyword of the line and starts where *)
(* the run of class characters before that keyword starts.                 *)
(***************************************************************************)
MatchedName(line) ==
    LET \* (?:\s+alcohol)? from e
        AlcoholEnd(l, e) ==
            IF SkipSpaces(l, e) > e /\ IsPrefixAt(l, SkipSpaces(l, e), <<"a", "l", "c", "o", "h", "o", "l">>)
            THEN SkipSpaces(l, e) + 7
            ELSE e
        \* the index after the keyword that starts at q, 0 when none starts there
        RECURSIVE KeywordEndFrom(_, _, _)
        KeywordEndFrom(l, q, k) ==
            IF k > Len(NameKeywords) THEN 0
            ELSE IF IsPrefixAt(l, q, NameKeywords[k])
            THEN (IF NameKeywords[k] = <<"f", "e", "n", "c", "h", "y", "l">>
                  THEN AlcoholEnd(l, q + 7)
                  ELSE q + Len(NameKeywords[k]))
            ELSE KeywordEndFrom(l, q, k + 1)
        \* where the first keyword at or after q starts, 0 when there is none
        RECURSIVE FirstKeyword(_, _)
        FirstKeyword(l, q) ==
            IF q > Len(l) THEN 0
            ELSE IF KeywordEndFrom(l, q, 1) # 0 THEN q
            ELSE FirstKeyword(l, q + 1)
        \* where the run of class characters that ends before q starts
        RECURSIVE RunStart(_, _)
        RunStart(l, q) ==
            IF q > 1 /\ l[q - 1] \in NameChars THEN RunStart(l, q - 1) ELSE q
        NameAt(l, q) ==
            IF q = 0 THEN NoStr
            ELSE SubSeq(line, RunStart(l, q), KeywordEndFrom(l, q, 1) - 1)
        NameIn(l) == NameAt(l, FirstKeyword(l, 1))
    IN  NameIn(ToLower(line))

(***************************************************************************)
(* line.matchAll(/(-?\d{1,3})(?:\s*[.,]\s*(\d{1,4}))?\s*(%|mg\s*\/\s*g|    *)
(* µg\s*\/\s*g|ug\s*\/\s*g)?/gi): the matches from index i on, from left   *)
(* to right, each with its groups whole, frac, unit (empty for a group     *)
(* that took no part); l is the lower-cased line.                          *)
(***************************************************************************)
MaxWholeDigits == 3
MaxFractionDigits == 4

\* the index after at most n digits from a
RECURSIVE BoundedRunEnd(_, _, _)
BoundedRunEnd(l, a, n) ==
    IF n > 0 /\ IsDigitAt(l, a) THEN BoundedRunEnd(l, a + 1, n - 1) ELSE a

RECURSIVE MatchAllNums(_, _, _)
MatchAllNums(line, l, i) ==
    LET \* \s*[.,]\s* from b, a digit next: the index of that digit, 0 when it does not match
        FracStartFrom(s) ==
            IF /\ s <= Len(l) /\ l[s] \in {".", ","}
               /\ IsDigitAt(l, SkipSpaces(l, s + 1))
            THEN SkipSpaces(l, s + 1)
            ELSE 0
        \* the optional unit at u: the index after it, u when there is none
        UnitEndAt(u) ==
            IF PercentAt(l, u) THEN u + 1
            ELSE IF /\ \/ IsPrefixAt(l, u, <<"m", "g">>)
                       \/ IsPrefixAt(l, u, <<"µ", "g">>)
                       \/ IsPrefixAt(l, u, <<"u", "g">>)
                    /\ PerGramEnd(l, u + 2) # 0
            THEN PerGramEnd(l, u + 2)
            ELSE u
        \* the match: whole is i..b-1, frac f..c-1 (f = 0: none), unit u..e-1
        Groups(b, f, c, u, e) ==
            [whole |-> SubSeq(line, i, b - 1),
             frac |-> IF f = 0 THEN <<>> ELSE SubSeq(line, f, c - 1),
             unit |-> SubSeq(line, u, e - 1),
             next |-> e]
        WithUnit(b, f, c) == Groups(b, f, c, SkipSpaces(l, c), UnitEndAt(SkipSpaces(l, c)))
        WithFrac(b, f) ==
            WithUnit(b, f, IF f = 0 THEN b ELSE BoundedRunEnd(l, f, MaxFractionDigits))
        WithWhole(b) == WithFrac(b, FracStartFrom(SkipSpaces(l, b)))
        MatchHere ==
            WithWhole(BoundedRunEnd(l, IF l[i] = "-" THEN i + 1 ELSE i, MaxWholeDigits))
        Then(m) == <<m>> \o MatchAllNums(line, l, m.next)
    IN  IF i > Len(l) THEN <<>>
        ELSE IF FloatStartsAt(l, i) THEN Then(MatchHere)
        ELSE MatchAllNums(line, l, i + 1)

(***************************************************************************)
(* pick: the first match with '%' in its unit, else the first with 'mg',   *)
(* else the first with 'g', else, under a percent header, the last match.  *)
(* The index in nums, 0 when nothing is picked.                            *)
(***************************************************************************)
\* the pick, had it gone by position: the first match of the line
PickFirstNumber(nums, percentByHeader) == IF nums = <<>> THEN 0 ELSE 1

PickIndex(nums, percentByHeader) ==
    LET RECURSIVE FirstWith(_, _)
        FirstWith(k, w) ==
            IF k > Len(nums) THEN 0
            ELSE IF Includes(ToLower(nums[k].unit), w) THEN k
            ELSE FirstWith(k + 1, w)
        OrElse(a, b) == IF a # 0 THEN a ELSE b
    IN  OrElse(FirstWith(1, <<"%">>),
               OrElse(FirstWith(1, <<"m", "g">>),
                      OrElse(FirstWith(1, <<"g">>),
                             IF percentByHeader THEN Len(nums) ELSE 0)))

\* the value as a percent, by its unit
PercentOf(val, unit) ==
    IF unit = UnitPercent THEN fixPercentOverflow(val)
    ELSE IF unit = UnitMgPerG THEN mgPerGToPercent(val)
    ELSE ugPerGToPercent(val)

(***************************************************************************)
(* One pass of the line loop of collectTerpenesAsPercent, on the cleaned   *)
(* line: the row the line pushes, as a sequence of one row, or the empty   *)
(* sequence.                                                               *)
(***************************************************************************)
RowOfLine(line, percentByHeader) ==
    LET \* frac ? `${whole}.${frac}` : whole
        ValueText(n) == IF n.frac # <<>> THEN n.whole \o <<".">> \o n.frac ELSE n.whole
        \* if (!unit && percentByHeader) unit = '%';
        UnitOrHeader(unit) == IF unit = NoStr /\ percentByHeader THEN UnitPercent ELSE unit
        OfValue(name, val, unit) ==
            IF val = Null \/ unit = NoStr THEN <<>>
            ELSE <<[name |-> name, percent |-> PercentOf(val, unit)]>>
        OfPick(name, n) ==
            OfValue(name, toFloatSafe(ValueText(n)), UnitOrHeader(unitFrom(n.unit)))
        OfNums(name, nums, k) == IF k = 0 THEN <<>> ELSE OfPick(name, nums[k])
        OfName(name, nums) ==
            IF name = NoStr \/ name = <<>> \/ nums = <<>> THEN <<>>
            ELSE OfNums(name, nums, PickIndex(nums, percentByHeader))
        OfMatch(nm) ==
            IF nm = NoStr THEN <<>>
            ELSE OfName(canonTerp(nm), MatchAllNums(line, ToLower(line), 1))
    IN  OfMatch(MatchedName(line))

\* let line = joinWeirdDecimals(rawLine.replace(/\s{2,}/g, ' ').trim());
CleanLine(rawLine) == joinWeirdDecimals(Trim(CollapseSpaces(rawLine, 1)))

\* rows, when the line loop has ended
CollectRows(text) ==
    LET RECURSIVE OfLines(_, _)
        OfLines(lines, percentByHeader) ==
            IF lines = <<>> THEN <<>>
            ELSE RowOfLine(CleanLine(Head(lines)), percentByHeader)
                     \o OfLines(Tail(lines), percentByHeader)
    IN  OfLines(SplitLines(text, 1, 1), hasPercentContext(text))

(***************************************************************************)
(* The Map of collectTerpenesAsPercent, as the sequence of its values in   *)
(* insertion order: a name's row is replaced in place by a row of the same *)
(* name with a greater percent.                                            *)
(***************************************************************************)
HasName(rows, name) == \E k \in DOMAIN rows : rows[k].name = name

\* best.set(r.name, r), whatever the percent of the row in place
SetAlways(best, r) ==
    IF HasName(best, r.name)
    THEN [k \in DOMAIN best |-> IF best[k].name = r.name THEN r ELSE best[k]]
    ELSE Append(best, r)

\* if (!prev || r.percent > prev.percent) best.set(r.name, r);
SetIfGreater(best, r) ==
    IF HasName(best, r.name)
    THEN [k \in DOMAIN best |->
             IF best[k].name = r.name /\ Gt(r.percent, best[k].percent) THEN r ELSE best[k]]
    ELSE Append(best, r)

RECURSIVE BestRows(_, _)
BestRows(rows, best) ==
    IF rows = <<>> THEN best
    ELSE BestRows(Tail(rows), SetIfGreater(best, Head(rows)))

collectTerpenesAsPercent(text) == BestRows(CollectRows(text), <<>>)

(***************************************************************************)
(* rows.sort((a,b)=>b.percent - a.percent): Array.prototype.sort is        *)
(* stable, rows of equal percent keep their order.                         *)
(***************************************************************************)
SortDesc(rows) ==
    LET InsertAt(sorted, r, n) ==
            SubSeq(sorted, 1, n) \o <<r>> \o SubSeq(sorted, n + 1, Len(sorted))
        \* r goes after every row that is not smaller
        InsertDesc(sorted, r) ==
            InsertAt(sorted, r,
                     Cardinality({k \in DOMAIN sorted : ~Gt(r.percent, sorted[k].percent)}))
        RECURSIVE SortInto(_, _)
        SortInto(rest, sorted) ==
            IF rest = <<>> THEN sorted
            ELSE SortInto(Tail(rest), InsertDesc(sorted, Head(rest)))
    IN  SortInto(rows, <<>>)

\* for (const r of rows) if (r.name === 'pinene') r.percent = r.percent * 0.5;
HalvePinene(rows) ==
    [k \in DOMAIN rows |->
        IF rows[k].name = <<"p", "i", "n", "e", "n", "e">>
        THEN [rows[k] EXCEPT !.percent = Dec(5 * @.m, @.e + 1)]
        ELSE rows[k]]

\* the correction, had it not sorted again
CorrectPineneNoSort(rows) ==
    IF HasName(rows, <<"a", "l", "p", "h", "a", "-", "p", "i", "n", "e", "n", "e">>) \/ HasName(rows, <<"b", "e", "t", "a", "-", "p", "i", "n", "e", "n", "e">>)
    THEN HalvePinene(rows)
    ELSE rows

\* the correction, had it looked for alpha-pinene alone
CorrectPineneAlphaOnly(rows) ==
    IF HasName(rows, <<"a", "l", "p", "h", "a", "-", "p", "i", "n", "e", "n", "e">>) THEN SortDesc(HalvePinene(rows)) ELSE rows

\* if (hasAlpha || hasBeta) { halve every 'pinene' row; sort again }
CorrectPinene(rows) ==
    IF HasName(rows, <<"a", "l", "p", "h", "a", "-", "p", "i", "n", "e", "n", "e">>) \/ HasName(rows, <<"b", "e", "t", "a", "-", "p", "i", "n", "e", "n", "e">>)
    THEN SortDesc(HalvePinene(rows))
    ELSE rows

\* rows of pickTopTerpenes, before slice
RankRows(rows) == IF rows = <<>> THEN <<>> ELSE CorrectPinene(SortDesc(rows))

\* rows.slice(0, limit).map(r => r.name)
TopNames(rows, limit) ==
    [k \in 1..(IF Len(rows) < limit THEN Len(rows) ELSE limit) |-> rows[k].name]

\* limit = 3
TopLimit == 3

(***************************************************************************)
(* function pickTopTerpenes(text, limit = 3)                               *)
(***************************************************************************)
pickTopTerpenes(text, limit) == TopNames(RankRows(collectTerpenesAsPercent(text)), limit)

\* the field, had it been names[0] || ''
DominantOfEmptyName(names) == IF names = <<>> THEN <<>> ELSE names[1]

\* dominantTerpene: names[0] ?? null,  otherTerpenes: names.slice(1)
DominantOf(names) == IF names = <<>> THEN NoStr ELSE names[1]
OthersOf(names) == IF names = <<>> THEN <<>> ELSE Tail(names)
(***************************************************************************)
(* Strain name and type                                                    *)
(***************************************************************************)

\* the labels of pats, in the order of the array
StrainLabels == <<"Strain", "Cultivar(s)", "Sample Alias", "Product Name", "Cultivars">>

(***************************************************************************)
(* The label part of a pattern of pats at index i of the lower-cased text: *)
(* the index after it, 0 when it does not match.                           *)
(*   Strain   Cultivar\(s\)?   Sample\s*Alias   Product\s*Name  Cultivars? *)
(***************************************************************************)
StrainLabelEnd(l, i, label) ==
    IF label = "Strain"
    THEN (IF IsPrefixAt(l, i, <<"s", "t", "r", "a", "i", "n">>) THEN i + 6 ELSE 0)
    ELSE IF label = "Cultivar(s)"
    THEN (IF IsPrefixAt(l, i, <<"c", "u", "l", "t", "i", "v", "a", "r", "(", "s">>)
          THEN (IF IsPrefixAt(l, i + 10, <<")">>) THEN i + 11 ELSE i + 10)
          ELSE 0)
    ELSE IF label = "Sample Alias"
    THEN (IF IsPrefixAt(l, i, <<"s", "a", "m", "p", "l", "e">>) /\ IsPrefixAt(l, SkipSpaces(l, i + 6), <<"a", "l", "i", "a", "s">>)
          THEN SkipSpaces(l, i + 6) + 5
          ELSE 0)
    ELSE IF label = "Product Name"
    THEN (IF IsPrefixAt(l, i, <<"p", "r", "o", "d", "u", "c", "t">>) /\ IsPrefixAt(l, SkipSpaces(l, i + 7), <<"n", "a", "m", "e">>)
          THEN SkipSpaces(l, i + 7) + 4
          ELSE 0)
    ELSE (IF IsPrefixAt(l, i, <<"c", "u", "l", "t", "i", "v", "a", "r">>)
          THEN (IF IsPrefixAt(l, i + 8, <<"s">>) THEN i + 9 ELSE i + 8)
          ELSE 0)

(***************************************************************************)
(* \s*[:\-]\s* from e, then the first character of the capture: where the  *)
(* capture starts, 0 when there is no match.  \s* takes all the white      *)
(* space; when the text ends there it gives back up to a character the     *)
(* capture can take, one that is not in breaks.                            *)
(***************************************************************************)
LabelledValueStart(s, e, breaks) ==
    LET RECURSIVE LastTaken(_, _)
        LastTaken(p, j) ==
            IF j < p THEN 0
            ELSE IF s[j] \notin breaks THEN j
            ELSE LastTaken(p, j - 1)
        After(p, q) == IF q <= Len(s) THEN q ELSE LastTaken(p, q - 1)
        Sep(a) ==
            IF a <= Len(s) /\ s[a] \in {":", "-"}
            THEN After(a + 1, SkipSpaces(s, a + 1))
            ELSE 0
    IN  IF e = 0 THEN 0 ELSE Sep(SkipSpaces(s, e))

(***************************************************************************)
(* function parseStrain(text): the value of the first pattern of pats that *)
(* matches, null when none does                                            *)
(***************************************************************************)
parseStrain(text) ==
    LET \* (.+): up to the end of the line
        RECURSIVE LineEnd(_)
        LineEnd(j) ==
            IF j < Len(text) /\ text[j + 1] \notin {"\n", "\r"} THEN LineEnd(j + 1) ELSE j
        StartAt(l, i, label) ==
            IF WordBoundary(l, i)
            THEN LabelledValueStart(l, StrainLabelEnd(l, i, label), {"\n", "\r"})
            ELSE 0
        \* text.match(re): where the capture of the leftmost match starts
        RECURSIVE FirstStart(_, _, _)
        FirstStart(l, i, label) ==
            IF i > Len(l) THEN 0
            ELSE IF StartAt(l, i, label) # 0 THEN StartAt(l, i, label)
            ELSE FirstStart(l, i + 1, label)
        \* m[1].replace(/\r|\n/g,' ').replace(/\s{2,}/g,' ').trim()
        Value(a) == Trim(CollapseSpaces(SubSeq(text, a, LineEnd(a)), 1))
        RECURSIVE Try(_, _)
        Try(l, k) ==
            IF k > Len(StrainLabels) THEN NoStr
            ELSE IF FirstStart(l, 1, StrainLabels[k]) # 0
            THEN Value(FirstStart(l, 1, StrainLabels[k]))
            ELSE Try(l, k + 1)
    IN  Try(ToLower(text), 1)

\* Sativa|Indica|Hybrid, lower-cased
TypeWords == { <<"s", "a", "t", "i", "v", "a">>, <<"i", "n", "d", "i", "c", "a">>, <<"h", "y", "b", "r", "i", "d">> }

\* /\b(Sativa|Indica|Hybrid)\b/i: where the leftmost match starts, 0 when none
FirstTypeWord(text) ==
    LET At(l, i) ==
            /\ WordBoundary(l, i)
            /\ \E w \in TypeWords : IsPrefixAt(l, i, w)
            /\ WordBoundary(l, i + 6)
        RECURSIVE From(_, _)
        From(l, i) == IF i > Len(l) THEN 0 ELSE IF At(l, i) THEN i ELSE From(l, i + 1)
    IN  From(ToLower(text), 1)

(***************************************************************************)
(* function pickSih(text)                                                  *)
(***************************************************************************)
pickSih(text) ==
    LET Word(i) == IF i = 0 THEN NoStr ELSE SubSeq(text, i, i + 5)
    IN  Word(FirstTypeWord(text))

(***************************************************************************)
(* function pickTypeRow(text):                                             *)
(*   /\bType\s*[:\-]\s*([^\n]+?)(?=\s{2,}|\n|$)/i                          *)
(***************************************************************************)
pickTypeRow(text) ==
    LET \* (?=\s{2,}|\n|$) at j
        Stops(j) ==
            \/ j > Len(text)
            \/ text[j] = "\n"
            \/ (text[j] \in SpaceChars /\ j < Len(text) /\ text[j + 1] \in SpaceChars)
        \* ([^\n]+?): the last index of the shortest capture from a
        RECURSIVE LazyEnd(_)
        LazyEnd(j) == IF Stops(j + 1) THEN j ELSE LazyEnd(j + 1)
        StartAt(l, i) ==
            IF WordBoundary(l, i) /\ IsPrefixAt(l, i, <<"t", "y", "p", "e">>)
            THEN LabelledValueStart(l, i + 4, {"\n"})
            ELSE 0
        RECURSIVE FirstStart(_, _)
        FirstStart(l, i) ==
            IF i > Len(l) THEN 0
            ELSE IF StartAt(l, i) # 0 THEN StartAt(l, i)
            ELSE FirstStart(l, i + 1)
        Row(a) == IF a = 0 THEN NoStr ELSE Trim(SubSeq(text, a, LazyEnd(a)))
    IN  Row(FirstStart(ToLower(text), 1))

(***************************************************************************)
(* function extractType(text)                                              *)
(***************************************************************************)
extractType(text) ==
    LET \* const sihTail = row.match(...)?.[1]; return sihTail || row;
        OfRow(row) ==
            IF row = NoStr \/ row = <<>> THEN NoStr
            ELSE IF pickSih(row) # NoStr THEN pickSih(row)
            ELSE row
        OfSih(sih) == IF sih # NoStr THEN sih ELSE OfRow(pickTypeRow(text))
    IN  OfSih(pickSih(text))

\* String.prototype.toUpperCase, one character
UpperChar(c) ==
    IF \E i \in 1..Len(LowerCase) : LowerCase[i] = c
    THEN UpperCase[CHOOSE i \in 1..Len(LowerCase) : LowerCase[i] = c]
    ELSE c

\* const TYPE_MAP = { I: 'Indica', H: 'Hybrid', S: 'Sativa' };
TYPE_MAP == [I |-> <<"I", "n", "d", "i", "c", "a">>, H |-> <<"H", "y", "b", "r", "i", "d">>, S |-> <<"S", "a", "t", "i", "v", "a">>]

(***************************************************************************)
(* function parseType(text) of the server: the product code first, then    *)
(* the words                                                               *)
(***************************************************************************)
parseType(text) ==
    LET \* /-([IHS])-[A-Z]{2}\b/ at i
        CodeAt(i) ==
            /\ i + 4 <= Len(text)
            /\ text[i] = "-"
            /\ text[i + 1] \in {"I", "H", "S"}
            /\ text[i + 2] = "-"
            /\ \A j \in {i + 3, i + 4} : \E n \in 1..26 : UpperCase[n] = text[j]
            /\ WordBoundary(text, i + 5)
        RECURSIVE FirstCode(_)
        FirstCode(i) ==
            IF i > Len(text) THEN 0 ELSE IF CodeAt(i) THEN i ELSE FirstCode(i + 1)
        \* m[1][0].toUpperCase() + m[1].slice(1).toLowerCase()
        Capitalized(w) == <<UpperChar(w[1])>> \o ToLower(Tail(w))
        OfWord(w) == IF w = NoStr THEN NoStr ELSE Capitalized(w)
        OfCode(i) == IF i # 0 THEN TYPE_MAP[text[i + 1]] ELSE OfWord(pickSih(text))
    IN  IF text = <<>> \/ text = NoStr THEN NoStr ELSE OfCode(FirstCode(1))

(***************************************************************************)
(* Unit conversion on the server (server.js)                               *)
(***************************************************************************)

(***************************************************************************)
(* +x.toFixed(d) for x >= 0.  The decimal x is rounded to d decimals; when *)
(* x lies midway between two of them the digit the double of x rounds to   *)
(* is not determined by the decimal, and up says which way it goes.        *)
(***************************************************************************)
ToFixed(x, d, up) ==
    LET Round(q, r, p) == Dec(IF 2 * r > p \/ (2 * r = p /\ up) THEN q + 1 ELSE q, d)
    IN  IF x.e <= d THEN x
        ELSE Round(x.m \div Pow10(x.e - d), x.m % Pow10(x.e - d), Pow10(x.e - d))

(***************************************************************************)
(* function toPercent(value, unit); unit is NoStr for a missing unit       *)
(***************************************************************************)
toPercent(value, unit, up) ==
    LET OfLower(u) ==
            IF Includes(u, <<"m", "g", "/", "g">>) THEN ToFixed(DivPow10(value, 1), 3, up)
            ELSE IF Includes(u, <<"p", "p", "m">>) \/ Includes(u, <<"µ", "g", "/", "g">>) \/ Includes(u, <<"u", "g", "/", "g">>)
            THEN ToFixed(DivPow10(value, 4), 4, up)
            ELSE value
    IN  IF value = Null THEN Null
        ELSE IF unit = NoStr \/ unit = <<>> \/ unit = <<"%">> THEN value
        ELSE OfLower(ToLower(unit))

\* (%|mg\/g|ppm|parts\s*per\s*million), i flag: the unit is one the pattern takes
IsLabUnit(u) ==
    \/ u \in { <<"%">>, <<"m", "g", "/", "g">>, <<"p", "p", "m">> }
    \/ /\ IsPrefixAt(u, 1, <<"p", "a", "r", "t", "s">>)
       /\ IsPrefixAt(u, SkipSpaces(u, 6), <<"p", "e", "r">>)
       /\ IsPrefixAt(u, SkipSpaces(u, SkipSpaces(u, 6) + 3), <<"m", "i", "l", "l", "i", "o", "n">>)
       /\ SkipSpaces(u, SkipSpaces(u, 6) + 3) + 7 = Len(u) + 1

(***************************************************************************)
(* extractTerpenesFromText: pct of the reading val with the unit m[2];     *)
(* null when the pattern does not take the unit (the terpene is skipped)   *)
(***************************************************************************)
extractTerpenesFromTextPct(val, unit, up) ==
    LET OfLower(u) ==
            IF Includes(u, <<"p", "p", "m">>) \/ Includes(u, <<"p", "a", "r", "t", "s">>)
            THEN ToFixed(DivPow10(val, 2), 2, up)
            ELSE IF u = <<"m", "g", "/", "g">> THEN ToFixed(DivPow10(val, 1), 2, up)
            ELSE val
    IN  IF val = Null \/ unit = NoStr \/ ~IsLabUnit(ToLower(unit)) THEN Null
        ELSE OfLower(ToLower(unit))

(***************************************************************************)
(* scrapeTrulieveLabPdf, terpene loop: value of the reading with the unit  *)
(* m[3]; null when the pattern does not take the unit                      *)
(***************************************************************************)
scrapeTrulieveLabPdfValue(value, unit) ==
    LET OfLower(u) ==
            IF Includes(u, <<"p", "p", "m">>) \/ Includes(u, <<"p", "a", "r", "t", "s">>) THEN DivPow10(value, 2)
            ELSE IF Includes(u, <<"m", "g">>) THEN DivPow10(value, 1)
            ELSE value
    IN  IF value = Null \/ unit = NoStr \/ ~IsLabUnit(ToLower(unit)) THEN Null
        ELSE OfLower(ToLower(unit))

(***************************************************************************)
(* collectTerpenesAsPercent, from let unit = unitFrom(pick[3] || '') on,   *)
(* with no percent header: the percent of the row, null when no row is     *)
(* pushed                                                                  *)
(***************************************************************************)
collectPercent(val, captured) ==
    LET OfUnit(unit) == IF val = Null \/ unit = NoStr THEN Null ELSE PercentOf(val, unit)
    IN  OfUnit(unitFrom(captured))

(***************************************************************************)
(* The strain list of the server (server.js)                               *)
(*                                                                         *)
(* A property that is undefined is the string Undefined, or the record     *)
(* NoValue where the property holds a number or an array.                  *)
(***************************************************************************)
Undefined == <<"<undefined>">>
NoValue == [k |-> "undefined"]
NaN == [k |-> "NaN"]

\* s || ..., s ? ... : ... for a string property
Truthy(s) == s # Undefined /\ s # NoStr /\ s # <<>>

\* the characters U+0020 to U+007E; U+0060, which a string of this notation cannot
\* hold, is written as the escape that encodes it
AsciiPrintable ==
    << " ", "!", "\"", "#", "$", "%", "&", "'", "(", ")", "*", "+", ",", "-", ".", "/",
       "0", "1", "2", "3", "4", "5", "6", "7", "8", "9", ":", ";", "<", "=", ">", "?",
       "@", "A", "B", "C", "D", "E", "F", "G", "H", "I", "J", "K", "L", "M", "N", "O",
       "P", "Q", "R", "S", "T", "U", "V", "W", "X", "Y", "Z", "[", "\\", "]", "^", "_",
       "%60", "a", "b", "c", "d", "e", "f", "g", "h", "i", "j", "k", "l", "m", "n", "o",
       "p", "q", "r", "s", "t", "u", "v", "w", "x", "y", "z", "{", "|", "}", "~" >>

HexDigits == <<"0", "1", "2", "3", "4", "5", "6", "7", "8", "9", "a", "b", "c", "d", "e", "f">>

(***************************************************************************)
(* function safeDecode(s): decodeURIComponent(String(s)), and String(s)    *)
(* when that throws.  An escape %XX of a code below 0x80 is its character; *)
(* a '%' without two hexadecimal digits makes decodeURIComponent throw.    *)
(* Escapes of other code points (UTF-8 sequences, control characters) are  *)
(* left as they are: no input of the model has one.                        *)
(***************************************************************************)
safeDecode(s) ==
    LET IsHexAt(i) == i <= Len(s) /\ \E h \in 1..16 : HexDigits[h] = LowerChar(s[i])
        HexAt(i) == (CHOOSE h \in 1..16 : HexDigits[h] = LowerChar(s[i])) - 1
        CodeAt(i) == 16 * HexAt(i + 1) + HexAt(i + 2)
        Malformed == \E i \in 1..Len(s) : s[i] = "%" /\ ~(IsHexAt(i + 1) /\ IsHexAt(i + 2))
        RECURSIVE From(_)
        From(i) ==
            IF i > Len(s) THEN <<>>
            ELSE IF s[i] = "%" /\ CodeAt(i) \in 32..126
            THEN <<AsciiPrintable[CodeAt(i) - 31]>> \o From(i + 3)
            ELSE <<s[i]>> \o From(i + 1)
    IN  IF Malformed THEN s ELSE From(1)

\* const toId = (name) => String(name || '').toLowerCase().replace(/[^a-z0-9]+/g, '');
toId(name) ==
    LET Kept(c) == c \in Digits \/ \E i \in 1..26 : LowerCase[i] = c
    IN  IF ~Truthy(name) THEN <<>> ELSE SelectSeq(ToLower(name), Kept)

(***************************************************************************)
(* new URL(code).pathname, NoStr when new URL throws.  A string is a URL   *)
(* when it starts with a scheme; for http and https the host must not be   *)
(* empty and the path is what follows it ('/' when nothing does), for any  *)
(* other scheme the path is what follows the colon; the path ends at '?'   *)
(* or '#'.  Escaping and dot segments are not rewritten.                   *)
(***************************************************************************)
UrlPathname(code) ==
    LET IsLetter(c) == c \in AsciiLetters
        InScheme(c) == c \in AsciiLetters \cup Digits \cup {"+", "-", "."}
        RECURSIVE Colon(_)
        Colon(i) ==
            IF i > Len(code) THEN 0
            ELSE IF code[i] = ":" THEN i
            ELSE IF InScheme(code[i]) THEN Colon(i + 1)
            ELSE 0
        RECURSIVE Until(_, _)
        Until(i, stops) ==
            IF i > Len(code) \/ code[i] \in stops THEN i ELSE Until(i + 1, stops)
        RECURSIVE SkipSlashes(_)
        SkipSlashes(i) ==
            IF i <= Len(code) /\ code[i] \in {"/", "\\"} THEN SkipSlashes(i + 1) ELSE i
        PathFrom(p) == SubSeq(code, p, Until(p, {"?", "#"}) - 1)
        AfterHost(h, p) ==
            IF p = h THEN NoStr
            ELSE IF PathFrom(p) = <<>> THEN <<"/">>
            ELSE PathFrom(p)
        Special(h) == AfterHost(h, Until(h, {"/", "\\", "?", "#"}))
        OfScheme(c) ==
            IF c = 0 THEN NoStr
            ELSE IF ToLower(SubSeq(code, 1, c - 1)) \in { <<"h", "t", "t", "p">>, <<"h", "t", "t", "p", "s">> }
            THEN Special(SkipSlashes(c + 1))
            ELSE PathFrom(c + 1)
    IN  IF code = <<>> \/ ~IsLetter(code[1]) THEN NoStr ELSE OfScheme(Colon(2))

\* (u.pathname.split('/').filter(Boolean).pop() || '')
LastSegment(path) ==
    LET RECURSIVE Trimmed(_)
        Trimmed(p) ==
            IF p # <<>> /\ p[Len(p)] = "/" THEN Trimmed(SubSeq(p, 1, Len(p) - 1)) ELSE p
        RECURSIVE Start(_, _)
        Start(p, i) == IF i >= 1 /\ p[i] # "/" THEN Start(p, i - 1) ELSE i + 1
        Last(p) == SubSeq(p, Start(p, Len(p)), Len(p))
    IN  Last(Trimmed(path))

(***************************************************************************)
(* function makeId(s = {})                                                 *)
(***************************************************************************)
makeId(s) ==
    LET IsDigit(c) == c \in Digits
        \* last.replace(/\D+/g, '')
        OfPath(path) ==
            IF path # NoStr /\ SelectSeq(LastSegment(path), IsDigit) # <<>>
            THEN SelectSeq(LastSegment(path), IsDigit)
            ELSE toId(s.name)
    IN  IF Truthy(s.id) THEN s.id
        ELSE IF Truthy(s.code) THEN OfPath(UrlPathname(s.code))
        ELSE toId(s.name)

(***************************************************************************)
(* function typeToBucket(type), function bucketToLean(bucket)              *)
(***************************************************************************)
typeToBucket(type) ==
    IF IsPrefixAt(ToLower(type), 1, <<"i", "n", "d", "i">>) THEN <<"i", "n", "d", "i", "c", "a", "_", "l", "e", "a", "n", "i", "n", "g">>
    ELSE IF IsPrefixAt(ToLower(type), 1, <<"s", "a", "t", "i">>) THEN <<"s", "a", "t", "i", "v", "a", "_", "l", "e", "a", "n", "i", "n", "g">>
    ELSE <<"h", "y", "b", "r", "i", "d">>

bucketToLean(bucket) ==
    IF bucket = <<"i", "n", "d", "i", "c", "a", "_", "l", "e", "a", "n", "i", "n", "g">> THEN <<"I", "n", "d", "i", "c", "a", "-", "l", "e", "a", "n", "i", "n", "g">>
    ELSE IF bucket = <<"s", "a", "t", "i", "v", "a", "_", "l", "e", "a", "n", "i", "n", "g">> THEN <<"S", "a", "t", "i", "v", "a", "-", "l", "e", "a", "n", "i", "n", "g">>
    ELSE <<>>

(***************************************************************************)
(* Math.round(Number(String(thc).replace(/[^0-9.]/g, ''))) for a thc that  *)
(* is a string (a number is the string that writes it)                     *)
(***************************************************************************)
RoundedThc(thc) ==
    LET Kept(c) == c \in Digits \/ c = "."
        IsDigit(c) == c \in Digits
        IsDot(c) == c = "."
        \* Math.round of whole + 0.frac
        Rounded(whole, frac) ==
            Dec(DigitsVal(whole) + (IF frac # <<>> /\ DigitVal(frac[1]) >= 5 THEN 1 ELSE 0), 0)
        Split(t, d) == Rounded(SubSeq(t, 1, d - 1), SubSeq(t, d + 1, Len(t)))
        \* Number(t) of a string of digits and dots
        OfKept(t) ==
            IF t = <<>> THEN Dec(0, 0)
            ELSE IF Len(SelectSeq(t, IsDot)) > 1 \/ SelectSeq(t, IsDigit) = <<>> THEN NaN
            ELSE IF Len(SelectSeq(t, IsDot)) = 0 THEN Dec(DigitsVal(t), 0)
            ELSE Split(t, CHOOSE d \in 1..Len(t) : t[d] = ".")
    IN  OfKept(SelectSeq(thc, Kept))

(***************************************************************************)
(* String(s.terpenes).split(/[;,|\n\r]+/).map(x => x.trim()).filter(Boolean) *)
(***************************************************************************)
SplitTerpenes(str) ==
    LET IsSep(c) == c \in {";", ",", "|", "\n", "\r"}
        NonEmpty(x) == x # <<>>
        RECURSIVE Pieces(_, _)
        Pieces(i, a) ==
            IF i > Len(str) THEN <<Trim(SubSeq(str, a, Len(str)))>>
            ELSE IF IsSep(str[i]) THEN <<Trim(SubSeq(str, a, i - 1))>> \o Pieces(i + 1, i + 1)
            ELSE Pieces(i + 1, a)
    IN  SelectSeq(Pieces(1, 1), NonEmpty)

(***************************************************************************)
(* function normalizeStrain(s).  s.terpenes is [k |-> "array", v |-> ...], *)
(* [k |-> "string", v |-> ...] or NoValue; s.thc is a string or Undefined. *)
(***************************************************************************)
normalizeStrain(s) ==
    LET terps ==
            IF s.terpenes.k = "array" THEN s.terpenes.v
            ELSE IF s.terpenes.k = "string" /\ s.terpenes.v # <<>> THEN SplitTerpenes(s.terpenes.v)
            ELSE <<>>
        Built(top3, bucket) ==
            [id |-> makeId(s),
             code |-> IF Truthy(s.code) THEN s.code ELSE Undefined,
             name |-> s.name,
             thc |-> IF s.thc = Undefined \/ s.thc = NoStr THEN NoValue ELSE RoundedThc(s.thc),
             bucket |-> bucket,
             lean |-> IF Truthy(s.lean) THEN s.lean ELSE bucketToLean(bucket),
             type |-> IF Truthy(s.type) THEN s.type ELSE Undefined,
             terpenes |-> top3,
             dominantTerpene |-> IF top3 # <<>> /\ top3[1] # <<>> THEN top3[1] ELSE <<>>]
    IN  Built(SubSeq(terps, 1, IF Len(terps) < 3 THEN Len(terps) ELSE 3),
              IF Truthy(s.bucket) THEN s.bucket
              ELSE IF Truthy(s.type) THEN typeToBucket(s.type)
              ELSE <<"h", "y", "b", "r", "i", "d">>)

\* the upsert, had it found the entry by its name
upsertStrainByName(s) ==
    LET Found == {i \in DOMAIN STRAINS : STRAINS[i].name = s.name}
        At(i) == [STRAINS EXCEPT ![i] = s]
    IN  IF Found # {}
        THEN At(CHOOSE i \in Found : \A j \in Found : i <= j)
        ELSE <<s>> \o STRAINS

\* the upsert, had it moved the entry it replaces to the front
upsertStrainToFront(s) ==
    LET Other(x) == x.id # s.id
    IN  <<s>> \o SelectSeq(STRAINS, Other)

\* the upsert, had it always inserted
upsertStrainAlwaysInsert(s) == <<s>> \o STRAINS

(***************************************************************************)
(* function upsertStrain(s): STRAINS after the call                        *)
(***************************************************************************)
upsertStrain(s) ==
    LET \* STRAINS.findIndex((x) => String(x.id) === String(s.id))
        Found == {i \in DOMAIN STRAINS : STRAINS[i].id = s.id}
        At(i) == [STRAINS EXCEPT ![i] = s]
    IN  IF Found # {}
        THEN At(CHOOSE i \in Found : \A j \in Found : i <= j)
        ELSE <<s>> \o STRAINS

(***************************************************************************)
(* Resolving a code (server.js)                                            *)
(***************************************************************************)

(***************************************************************************)
(* new URL(code).hostname, lower case as URL gives it; NoStr when new URL  *)
(* throws.  Only http and https URLs without user, password and port are   *)
(* taken apart; a URL of another scheme has the empty host.                *)
(***************************************************************************)
UrlHostname(code) ==
    LET RECURSIVE Until(_, _)
        Until(i, stops) ==
            IF i > Len(code) \/ code[i] \in stops THEN i ELSE Until(i + 1, stops)
        RECURSIVE SkipSlashes(_)
        SkipSlashes(i) ==
            IF i <= Len(code) /\ code[i] \in {"/", "\\"} THEN SkipSlashes(i + 1) ELSE i
        Host(h) == ToLower(SubSeq(code, h, Until(h, {"/", "\\", "?", "#"}) - 1))
        OfColon(c) ==
            IF ToLower(SubSeq(code, 1, c - 1)) \in { <<"h", "t", "t", "p">>, <<"h", "t", "t", "p", "s">> }
            THEN Host(SkipSlashes(c + 1))
            ELSE <<>>
    IN  IF UrlPathname(code) = NoStr THEN NoStr ELSE OfColon(Until(1, {":"}))

\* function looksLikeUrl(s) { try { new URL(s); return true; } catch { return false; } }
looksLikeUrl(s) == UrlPathname(s) # NoStr

\* String.prototype.endsWith
EndsWith(s, t) == Len(t) <= Len(s) /\ IsPrefixAt(s, Len(s) - Len(t) + 1, t)

\* host.includes('trulieve.com') && path.endsWith('.pdf')
IsTrulievePdf(codeStr) ==
    /\ looksLikeUrl(codeStr)
    /\ Includes(UrlHostname(codeStr), <<"t", "r", "u", "l", "i", "e", "v", "e", ".", "c", "o", "m">>)
    /\ EndsWith(ToLower(UrlPathname(codeStr)), <<".", "p", "d", "f">>)

\* what scrapeFromCode returns for a code that contains 'wedding-cake'
DemoStrain ==
    [name |-> <<"W", "e", "d", "d", "i", "n", "g", " ", "C", "a", "k", "e">>, thc |-> <<"2", "3">>, bucket |-> <<"h", "y", "b", "r", "i", "d">>, type |-> <<"H", "y", "b", "r", "i", "d">>,
     terpenes |-> << <<"C", "a", "r", "y", "o", "p", "h", "y", "l", "l", "e", "n", "e">>, <<"L", "i", "m", "o", "n", "e", "n", "e">>, <<"H", "u", "m", "u", "l", "e", "n", "e">> >>]

\* scrapeTrulieveLabPdf threw
Threw == [k |-> "throws"]

(***************************************************************************)
(* async function scrapeFromCode(code).  scraped is what                   *)
(* scrapeTrulieveLabPdf(codeStr) gives if it is called: a record, Null, or *)
(* Threw.                                                                  *)
(***************************************************************************)
scrapeFromCode(code, scraped) ==
    IF IsTrulievePdf(code) /\ scraped # Null /\ scraped # Threw THEN scraped
    ELSE IF Includes(ToLower(code), <<"w", "e", "d", "d", "i", "n", "g", "-", "c", "a", "k", "e">>) THEN DemoStrain
    ELSE Null

(***************************************************************************)
(* function guessNameFromCode(code), NoStr for null                        *)
(***************************************************************************)
guessNameFromCode(code) ==
    LET \* last.replace(/\.(pdf|html?)$/i, '')
        Base(last) ==
            IF EndsWith(ToLower(last), <<".", "h", "t", "m", "l">>) THEN SubSeq(last, 1, Len(last) - 5)
            ELSE IF EndsWith(ToLower(last), <<".", "p", "d", "f">>) \/ EndsWith(ToLower(last), <<".", "h", "t", "m">>)
            THEN SubSeq(last, 1, Len(last) - 4)
            ELSE last
        \* base.replace(/[-_]+/g, ' ')
        RECURSIVE Spaced(_, _)
        Spaced(b, i) ==
            IF i > Len(b) THEN <<>>
            ELSE IF b[i] \in {"-", "_"}
            THEN (IF i > 1 /\ b[i - 1] \in {"-", "_"} THEN <<>> ELSE <<" ">>) \o Spaced(b, i + 1)
            ELSE <<b[i]>> \o Spaced(b, i + 1)
        \* .replace(/\b\w/g, c => c.toUpperCase())
        Capitalized(t) ==
            [i \in 1..Len(t) |->
                IF t[i] \in WordChars /\ WordBoundary(t, i) THEN UpperChar(t[i]) ELSE t[i]]
        OfLast(last) ==
            IF last = <<>> THEN NoStr ELSE Trim(Capitalized(Spaced(Base(last), 1)))
    IN  IF UrlPathname(code) = NoStr THEN NoStr
        ELSE OfLast(Trim(LastSegment(UrlPathname(code))))

\* { ...data, code }: what normalizeStrain is handed for a scraped record
WithCode(data, code) ==
    [id |-> Undefined, code |-> code, name |-> data.name, thc |-> data.thc,
     bucket |-> data.bucket, lean |-> Undefined,
     terpenes |-> [k |-> "array", v |-> data.terpenes], type |-> data.type]

\* { code: got, name: guessNameFromCode(got) || 'Unknown Strain', thc: undefined,
\*   bucket: 'hybrid', terpenes: [] }
StubFor(got) ==
    [id |-> Undefined, code |-> got,
     name |-> IF Truthy(guessNameFromCode(got)) THEN guessNameFromCode(got) ELSE <<"U", "n", "k", "n", "o", "w", "n", " ", "S", "t", "r", "a", "i", "n">>,
     thc |-> Undefined, bucket |-> <<"h", "y", "b", "r", "i", "d">>, lean |-> Undefined,
     terpenes |-> [k |-> "array", v |-> <<>>], type |-> Undefined]

(***************************************************************************)
(* function normalizeTerpName(name)                                        *)
(***************************************************************************)
normalizeTerpName(name) ==
    LET Kept(c) == c \in {LowerCase[i] : i \in 1..26} \cup {"-", " ", "(", ")", "+", "/"}
        Greek(c) ==
            IF c \in {"α", "Α"} THEN <<"a", "l", "p", "h", "a">>
            ELSE IF c \in {"β", "Β"} THEN <<"b", "e", "t", "a">>
            ELSE <<c>>
        RECURSIVE Latin(_)
        Latin(s) == IF s = <<>> THEN <<>> ELSE Greek(Head(s)) \o Latin(Tail(s))
        \* name.replace(/\s+/g, ' ')
        RECURSIVE OneSpace(_, _)
        OneSpace(s, i) ==
            IF i > Len(s) THEN <<>>
            ELSE IF s[i] \in SpaceChars
            THEN (IF i > 1 /\ s[i - 1] \in SpaceChars THEN <<>> ELSE <<" ">>) \o OneSpace(s, i + 1)
            ELSE <<s[i]>> \o OneSpace(s, i + 1)
        Pinene(n) ==
            IF Includes(n, <<"a", "l", "p", "h", "a">>) THEN <<"A", "l", "p", "h", "a", "-", "P", "i", "n", "e", "n", "e">>
            ELSE IF Includes(n, <<"b", "e", "t", "a">>) THEN <<"B", "e", "t", "a", "-", "P", "i", "n", "e", "n", "e">>
            ELSE <<"P", "i", "n", "e", "n", "e">>
        Of(n) ==
            IF Includes(n, <<"c", "a", "r", "y", "o", "p", "h", "y", "l", "l", "e", "n", "e">>) THEN <<"C", "a", "r", "y", "o", "p", "h", "y", "l", "l", "e", "n", "e">>
            ELSE IF Includes(n, <<"h", "u", "m", "u", "l", "e", "n", "e">>) THEN <<"H", "u", "m", "u", "l", "e", "n", "e">>
            ELSE IF Includes(n, <<"l", "i", "m", "o", "n", "e", "n", "e">>) THEN <<"L", "i", "m", "o", "n", "e", "n", "e">>
            ELSE IF Includes(n, <<"m", "y", "r", "c", "e", "n", "e">>) THEN <<"M", "y", "r", "c", "e", "n", "e">>
            ELSE IF Includes(n, <<"l", "i", "n", "a", "l", "o", "o", "l">>) THEN <<"L", "i", "n", "a", "l", "o", "o", "l">>
            ELSE IF Includes(n, <<"t", "e", "r", "p", "i", "n", "o", "l", "e", "n", "e">>) THEN <<"T", "e", "r", "p", "i", "n", "o", "l", "e", "n", "e">>
            ELSE IF Includes(n, <<"p", "i", "n", "e", "n", "e">>) THEN Pinene(n)
            ELSE IF Includes(n, <<"o", "c", "i", "m", "e", "n", "e">>) THEN <<"O", "c", "i", "m", "e", "n", "e">>
            ELSE IF Includes(n, <<"b", "i", "s", "a", "b", "o", "l", "o", "l">>) THEN <<"B", "i", "s", "a", "b", "o", "l", "o", "l">>
            ELSE IF Includes(n, <<"t", "e", "r", "p", "i", "n", "e", "o", "l">>) THEN <<"T", "e", "r", "p", "i", "n", "e", "o", "l">>
            ELSE IF Includes(n, <<"n", "e", "r", "o", "l", "i", "d", "o", "l">>) THEN <<"N", "e", "r", "o", "l", "i", "d", "o", "l">>
            ELSE IF Includes(n, <<"v", "a", "l", "e", "n", "c", "e", "n", "e">>) THEN <<"V", "a", "l", "e", "n", "c", "e", "n", "e">>
            ELSE IF Includes(n, <<"e", "u", "c", "a", "l", "y", "p", "t", "o", "l">>) \/ Includes(n, <<"c", "i", "n", "e", "o", "l", "e">>) THEN <<"E", "u", "c", "a", "l", "y", "p", "t", "o", "l">>
            ELSE IF Includes(n, <<"g", "e", "r", "a", "n", "i", "o", "l">>) THEN <<"G", "e", "r", "a", "n", "i", "o", "l">>
            ELSE IF Includes(n, <<"f", "e", "n", "c", "h", "o", "l">>) \/ Includes(n, <<"f", "e", "n", "c", "h", "y", "l">>) THEN <<"F", "e", "n", "c", "h", "o", "l">>
            ELSE IF Includes(n, <<"b", "o", "r", "n", "e", "o", "l">>) THEN <<"B", "o", "r", "n", "e", "o", "l">>
            ELSE IF Includes(n, <<"i", "s", "o", "p", "u", "l", "e", "g", "o", "l">>) THEN <<"I", "s", "o", "p", "u", "l", "e", "g", "o", "l">>
            ELSE IF Includes(n, <<"c", "a", "m", "p", "h", "e", "n", "e">>) THEN <<"C", "a", "m", "p", "h", "e", "n", "e">>
            ELSE Trim(OneSpace(name, 1))
    IN  IF ~Truthy(name) THEN <<>> ELSE Of(SelectSeq(ToLower(Latin(name)), Kept))

(***************************************************************************)
(* function coalesceParsedToStrain(parsed, url).  parsed is what parseCoa  *)
(* returned: strain, type and dominantTerpene are strings or NoStr,        *)
(* otherTerpenes is a list, totalPercent a string or NoStr.                *)
(***************************************************************************)
coalesceParsedToStrain(parsed, url) ==
    LET IsTruthy(x) == Truthy(x)
        Names(terps) == [i \in 1..Len(terps) |-> normalizeTerpName(terps[i])]
        Built(type, bucket) ==
            [id |-> Undefined,
             code |-> url,
             name |-> IF Truthy(parsed.strain) THEN parsed.strain
                      ELSE IF Truthy(guessNameFromCode(url)) THEN guessNameFromCode(url)
                      ELSE <<"U", "n", "k", "n", "o", "w", "n", " ", "S", "t", "r", "a", "i", "n">>,
             thc |-> IF parsed.totalPercent = NoStr THEN Undefined ELSE parsed.totalPercent,
             bucket |-> bucket,
             lean |-> bucketToLean(bucket),
             terpenes |-> [k |-> "array",
                           v |-> Names(SelectSeq(<<parsed.dominantTerpene>> \o parsed.otherTerpenes,
                                                 IsTruthy))],
             type |-> type]
        OfType(type) == Built(type, IF Truthy(type) THEN typeToBucket(type) ELSE <<"h", "y", "b", "r", "i", "d">>)
    IN  OfType(IF Truthy(parsed.type) THEN parsed.type ELSE NoStr)

(***************************************************************************)
(* app.get('/api/strains', ...) (server.js)                                *)
(*                                                                         *)
(* A number of the handler is [nan |-> FALSE, n |-> an integer] or         *)
(* NotANumber.                                                             *)
(***************************************************************************)
ResponseCeiling == 5000

Num(n) == [nan |-> FALSE, n |-> n]
NotANumber == [nan |-> TRUE, n |-> 0]

\* Math.max(a, b) and Math.min(a, b): NaN when an argument is NaN
MathMax(a, b) == IF a.nan \/ b.nan THEN NotANumber ELSE IF a.n >= b.n THEN a ELSE b
MathMin(a, b) == IF a.nan \/ b.nan THEN NotANumber ELSE IF a.n <= b.n THEN a ELSE b

(***************************************************************************)
(* Number.isFinite(+raw) for a string or Undefined: the string, trimmed,   *)
(* is empty or a decimal literal (sign, digits, fraction, exponent).       *)
(* Literals with a radix prefix are not among the queries.                 *)
(***************************************************************************)
IsFiniteNumeric(raw) ==
    LET IsSign(t, i) == i <= Len(t) /\ t[i] \in {"+", "-"}
        AfterSign(t, i) == IF IsSign(t, i) THEN i + 1 ELSE i
        \* the index after the exponent that starts at i, 0 when it has no digits
        AfterExponent(t, i) ==
            IF i <= Len(t) /\ t[i] \in {"e", "E"}
            THEN IF IsDigitAt(t, AfterSign(t, i + 1))
                 THEN DigitRunEnd(t, AfterSign(t, i + 1))
                 ELSE 0
            ELSE i
        \* the index after the fraction that starts at i
        AfterFraction(t, i) ==
            IF i <= Len(t) /\ t[i] = "." THEN DigitRunEnd(t, i + 1) ELSE i
        \* the mantissa from a to b has a digit
        HasDigit(t, a, b) == \E j \in a..(b - 1) : t[j] \in Digits
        Mantissa(t, a, b) == HasDigit(t, a, b) /\ AfterExponent(t, b) = Len(t) + 1
        Literal(t, a) == Mantissa(t, a, AfterFraction(t, DigitRunEnd(t, a)))
        OfText(t) == t = <<>> \/ Literal(t, AfterSign(t, 1))
    IN  raw # Undefined /\ OfText(Trim(raw))

(***************************************************************************)
(* parseInt(raw, 10) for a string                                          *)
(***************************************************************************)
ParseInt10(raw) ==
    LET Signed(t, i, sign) ==
            IF IsDigitAt(t, i)
            THEN Num(sign * DigitsVal(SubSeq(t, i, DigitRunEnd(t, i) - 1)))
            ELSE NotANumber
        From(t, i) ==
            IF i <= Len(t) /\ t[i] = "-" THEN Signed(t, i + 1, -1)
            ELSE IF i <= Len(t) /\ t[i] = "+" THEN Signed(t, i + 1, 1)
            ELSE Signed(t, i, 1)
    IN  From(raw, SkipSpaces(raw, 1))

(***************************************************************************)
(* Array.prototype.slice(start, end) for numbers that are not negative:    *)
(* NaN is 0                                                                *)
(***************************************************************************)
Slice(list, start, end) ==
    LET Clamped(x) == IF x.nan THEN 0 ELSE IF x.n > Len(list) THEN Len(list) ELSE x.n
    IN  SubSeq(list, Clamped(start) + 1, Clamped(end))

(***************************************************************************)
(* The body of the handler: [total, strains] for the query and the list    *)
(***************************************************************************)
ListStrains(query, list) ==
    LET Sum(a, b) == IF a.nan \/ b.nan THEN NotANumber ELSE Num(a.n + b.n)
        Difference(a, b) == IF a.nan \/ b.nan THEN NotANumber ELSE Num(a.n - b.n)
        \* const limit = Math.max(1, Math.min(5000, Number.isFinite(+limitParam) ? ...))
        Limit(limitParam, computedDefault) ==
            MathMax(Num(1), MathMin(Num(ResponseCeiling),
                                    IF limitParam.nan THEN computedDefault ELSE limitParam))
        Sliced(offset, limit) ==
            [total |-> Len(list), strains |-> Slice(list, offset, Sum(offset, limit))]
        Limited(offset, computedDefault) ==
            Sliced(offset,
                   Limit(IF query.limit = Undefined \/ query.limit = <<>>
                         THEN computedDefault
                         ELSE ParseInt10(query.limit),
                         computedDefault))
        OfOffset(offset) ==
            Limited(offset, MathMax(Num(0), Difference(Num(Len(list)), offset)))
    IN  OfOffset(MathMax(Num(0), IF IsFiniteNumeric(query.offset)
                                 THEN ParseInt10(query.offset)
                                 ELSE Num(0)))

(***************************************************************************)
(* Specification SpecOverflow: fixPercentOverflow on every decimal with a  *)
(* mantissa in -MaxOvNeg..MaxOvMant and up to MaxOvExp decimals, and null. *)
(***************************************************************************)
MaxOvMant == 10500
MaxOvNeg == 2
MaxOvExp == 2

OverflowInputs ==
    {Dec(m, e) : m \in (0 - MaxOvNeg)..MaxOvMant, e \in 0..MaxOvExp} \cup {Null}

OvInit ==
    /\ ovIn \in OverflowInputs
    /\ ovOnce = Null
    /\ ovTwice = Null
    /\ ovPc = "start"

OvIdle == ovIn = Null /\ ovOnce = Null /\ ovTwice = Null /\ ovPc = "idle"

OvApply ==
    /\ ovPc = "start"
    /\ ovOnce' = fixPercentOverflow(ovIn)
    /\ ovPc' = "once"
    /\ UNCHANGED <<ovIn, ovTwice>>
    /\ UNCHANGED NotOv

OvApplyAgain ==
    /\ ovPc = "once"
    /\ ovTwice' = fixPercentOverflow(ovOnce)
    /\ ovPc' = "twice"
    /\ UNCHANGED <<ovIn, ovOnce>>
    /\ UNCHANGED NotOv

OvNext == OvApply \/ OvApplyAgain

(***************************************************************************)
(* C9  Overflow bound: for every non-null number v the result of           *)
(* fixPercentOverflow is at most 100; a v above 100 is divided by 10 the   *)
(* smallest number of times that brings it to 100 or below (so the loop    *)
(* ends after that many divisions), a v that is at most 100 is returned    *)
(* unchanged.                                                              *)
(***************************************************************************)
MaxDivisions == 9

C9_OverflowBound ==
    (ovPc # "start" /\ ovIn # Null) =>
        /\ ~Gt(ovOnce, Dec(100, 0))
        /\ ~Gt(ovIn, Dec(100, 0)) => ovOnce = ovIn
        /\ Gt(ovIn, Dec(100, 0)) =>
              \E n \in 1..MaxDivisions :
                  /\ ovOnce = DivPow10(ovIn, n)
                  /\ Gt(DivPow10(ovIn, n - 1), Dec(100, 0))

\* 1050 has been corrected to 10.5, by two divisions
C9_Witness == ovPc = "once" /\ ovIn = Dec(1050, 0) /\ ovOnce = Dec(105, 1)

(***************************************************************************)
(* C10  Overflow correction is idempotent: applying fixPercentOverflow to  *)
(* its own result changes nothing, for every v including null.             *)
(***************************************************************************)
C10_OverflowIdempotent == ovPc = "twice" => ovTwice = ovOnce

\* a value that needed correcting has gone through both applications
C10_Witness ==
    ovPc = "twice" /\ ovIn = Dec(1050, 0) /\ ovOnce = Dec(105, 1) /\ ovTwice = ovOnce

C10_WitnessNull == ovPc = "twice" /\ ovIn = Null /\ ovTwice = Null
(***************************************************************************)
(* Specification SpecCanon: canonTerp on every key and value of SYN, every *)
(* known terpene, and names spelled the way reports spell them.            *)
(***************************************************************************)
ReportSpellings ==
    {
      <<"M", "y", "r", "c", "e", "n", "e">>,
      <<"β", "-", "P", "i", "n", "e", "n", "e">>,
      <<"B", "e", "t", "a", "-", "P", "i", "n", "e", "n", "e">>,
      <<"A", "l", "p", "h", "a", " ", "P", "i", "n", "e", "n", "e">>,
      <<"P", "i", "n", "e", "n", "e">>,
      <<" ", "D", "-", "L", "i", "m", "o", "n", "e", "n", "e", " ">>,
      <<"C", "a", "r", "y", "o", "p", "h", "y", "l", "l", "e", "n", "e", " ", "O", "x", "i", "d", "e">>,
      <<"β", "-", "C", "a", "r", "y", "o", "p", "h", "y", "l", "l", "e", "n", "e">>,
      <<"T", "o", "t", "a", "l", " ", "P", "i", "n", "e", "n", "e">>,
      <<"V", "a", "l", "e", "n", "c", "e", "n", "e">>,
      <<" ", " ">>
    }

CanonInputs ==
    SynKeys \cup SynValues \cup {KNOWN_TERPENES[i] : i \in 1..Len(KNOWN_TERPENES)}
        \cup ReportSpellings

CnInit ==
    /\ cnIn \in CanonInputs
    /\ cnOnce = NoStr
    /\ cnTwice = NoStr
    /\ cnPc = "start"

CnIdle == cnIn = NoStr /\ cnOnce = NoStr /\ cnTwice = NoStr /\ cnPc = "idle"

CnApply ==
    /\ cnPc = "start"
    /\ cnOnce' = canonTerp(cnIn)
    /\ cnPc' = "once"
    /\ UNCHANGED <<cnIn, cnTwice>>
    /\ UNCHANGED NotCn

CnApplyAgain ==
    /\ cnPc = "once"
    /\ cnTwice' = canonTerp(cnOnce)
    /\ cnPc' = "twice"
    /\ UNCHANGED <<cnIn, cnOnce>>
    /\ UNCHANGED NotCn

CnNext == CnApply \/ CnApplyAgain

(***************************************************************************)
(* C7  Canonicalization is idempotent on synonyms: for every key x of SYN, *)
(* canonTerp(canonTerp(x)) = canonTerp(x), that is, the canonical key a    *)
(* synonym maps to is a fixed point of canonTerp.                          *)
(***************************************************************************)
C7_CanonIdempotentOnSynonyms ==
    (cnPc = "twice" /\ cnIn \in SynKeys) => cnTwice = cnOnce

\* what the code does hold to: the second application changes nothing for the
\* synonyms of every canonical key but beta-pinene and caryophyllene-oxide
C7_IdempotentExceptTwoKeys ==
    (cnPc = "twice" /\ cnIn \in SynKeys /\ cnTwice # cnOnce) =>
        cnOnce \in {<<"b", "e", "t", "a", "-", "p", "i", "n", "e", "n", "e">>,
                    <<"c", "a", "r", "y", "o", "p", "h", "y", "l", "l", "e", "n", "e", "-", "o", "x", "i", "d", "e">>}

(***************************************************************************)
(* Specification SpecTHC: parseTHC on every text of at most MaxThcRows     *)
(* rows, each row one of the cannabinoid rows below, joined by line breaks.*)
(***************************************************************************)
MaxThcRows == 2

\* a dotted leader of n characters
Dots(n) == [i \in 1..n |-> "."]

ThcRows ==
    <<
      \* "Total THC: 18.5%"
      <<"T", "o", "t", "a", "l", " ", "T", "H", "C", ":", " ", "1", "8", ".", "5", "%">>,
      \* "Total Active THC: 23.0%"
      <<"T", "o", "t", "a", "l", " ", "A", "c", "t", "i", "v", "e", " ", "T", "H", "C", ":", " ", "2", "3", ".", "0", "%">>,
      \* "Total THC: 185 mg/g"
      <<"T", "o", "t", "a", "l", " ", "T", "H", "C", ":", " ", "1", "8", "5", " ", "m", "g", "/", "g">>,
      \* "Total THC: 18,5%"
      <<"T", "o", "t", "a", "l", " ", "T", "H", "C", ":", " ", "1", "8", ",", "5", "%">>,
      \* "Total THC: 18.555%"
      <<"T", "o", "t", "a", "l", " ", "T", "H", "C", ":", " ", "1", "8", ".", "5", "5", "5", "%">>,
      \* "Total THC 18 55%"
      <<"T", "o", "t", "a", "l", " ", "T", "H", "C", " ", "1", "8", " ", "5", "5", "%">>,
      \* "Total THC", ThcWindow dots, "18.5%"
      <<"T", "o", "t", "a", "l", " ", "T", "H", "C">> \o Dots(ThcWindow) \o <<"1", "8", ".", "5", "%">>,
      \* "Total THC", ThcWindow + 1 dots, "18.5%"
      <<"T", "o", "t", "a", "l", " ", "T", "H", "C">> \o Dots(ThcWindow + 1) \o <<"1", "8", ".", "5", "%">>,
      \* "Total THC"
      <<"T", "o", "t", "a", "l", " ", "T", "H", "C">>,
      \* "THCA: 20%"
      <<"T", "H", "C", "A", ":", " ", "2", "0", "%">>,
      \* "THC-A 200 mg/g"
      <<"T", "H", "C", "-", "A", " ", "2", "0", "0", " ", "m", "g", "/", "g">>,
      \* "THCA: 20%, Delta-9 THC: 0.5%"
      <<"T", "H", "C", "A", ":", " ", "2", "0", "%", ",", " ", "D", "e", "l", "t", "a", "-", "9", " ", "T", "H", "C", ":", " ", "0", ".", "5", "%">>,
      \* "Delta-9 THC: 0.3%"
      <<"D", "e", "l", "t", "a", "-", "9", " ", "T", "H", "C", ":", " ", "0", ".", "3", "%">>,
      \* "D9-THC: 0.3%"
      <<"D", "9", "-", "T", "H", "C", ":", " ", "0", ".", "3", "%">>,
      \* "Δ9-THC: 0.3%"
      <<"Δ", "9", "-", "T", "H", "C", ":", " ", "0", ".", "3", "%">>,
      \* "Delta-9 THC: 3 mg/g"
      <<"D", "e", "l", "t", "a", "-", "9", " ", "T", "H", "C", ":", " ", "3", " ", "m", "g", "/", "g">>,
      \* "THC: 18%"
      <<"T", "H", "C", ":", " ", "1", "8", "%">>,
      \* "CBD: 0.1%"
      <<"C", "B", "D", ":", " ", "0", ".", "1", "%">>
    >>

RECURSIVE JoinLines(_)
JoinLines(rows) ==
    IF rows = <<>> THEN <<>>
    ELSE IF Len(rows) = 1 THEN rows[1]
    ELSE rows[1] \o <<"\n">> \o JoinLines(Tail(rows))

ThcTexts ==
    {JoinLines([i \in DOMAIN pick |-> ThcRows[pick[i]]]) :
        pick \in UNION {[1..n -> 1..Len(ThcRows)] : n \in 0..MaxThcRows}}

ThInit ==
    /\ thText \in ThcTexts
    /\ thTotal = Null
    /\ thPc = "start"

ThIdle == thText = <<>> /\ thTotal = Null /\ thPc = "idle"

\* const thc = parseTHC(text);  thc: { totalPercent: thc.totalPercent ?? null }
ThParse ==
    /\ thPc = "start"
    /\ thTotal' = parseTHC(thText)
    /\ thPc' = "done"
    /\ UNCHANGED thText
    /\ UNCHANGED NotTh

ThNext == ThParse

(***************************************************************************)
(* How the claims read a text: a reading is a number (digits, optionally a *)
(* '.' or ',' and more digits, the separator standing for the decimal      *)
(* point) followed by optional space and '%'.                              *)
(***************************************************************************)
ReadingFracStart(t, c) ==
    LET b == DigitRunEnd(t, c)
    IN  IF b <= Len(t) /\ t[b] \in {".", ","} /\ IsDigitAt(t, b + 1) THEN b + 1 ELSE 0

ReadingEnd(t, c) ==
    IF ReadingFracStart(t, c) = 0 THEN DigitRunEnd(t, c)
    ELSE DigitRunEnd(t, ReadingFracStart(t, c))

ReadingValue(t, c) ==
    LET b == DigitRunEnd(t, c)
        f == ReadingFracStart(t, c)
        whole == DigitsVal(SubSeq(t, c, b - 1))
    IN  IF f = 0 THEN Dec(whole, 0)
        ELSE LET n == ReadingEnd(t, c) - f
             IN  Dec(whole * Pow10(n) + DigitsVal(SubSeq(t, f, f + n - 1)), n)

IsPercentReading(t, c) ==
    /\ IsDigitAt(t, c)
    /\ ~IsDigitAt(t, c - 1)
    /\ LET u == SkipSpaces(t, ReadingEnd(t, c))
       IN  u <= Len(t) /\ t[u] = "%"

TotalLabels ==
    {<<"T", "o", "t", "a", "l", " ", "T", "H", "C">>,
     <<"T", "o", "t", "a", "l", " ", "A", "c", "t", "i", "v", "e", " ", "T", "H", "C">>}

\* the percent readings that follow a Total (Active) THC label within a
\* window of at most 40 characters that are not digits
TotalReadings(t) ==
    {ReadingValue(t, c) : c \in
        {c \in 1..Len(t) :
            /\ IsPercentReading(t, c)
            /\ \E lab \in TotalLabels :
                  \E i \in 1..Len(t) :
                      /\ IsPrefixAt(t, i, lab)
                      /\ c >= i + Len(lab)
                      /\ c - (i + Len(lab)) <= 40
                      /\ \A j \in (i + Len(lab))..(c - 1) : ~IsDigitAt(t, j)}}

(***************************************************************************)
(* C1  THC direct-path priority: for every text in which a Total THC or    *)
(* Total Active THC label is followed, within a window of at most 40       *)
(* non-digit characters, by a number and '%', parseTHC returns that number *)
(* as totalPercent, whatever THCA and Delta-9 THC values the text holds.   *)
(***************************************************************************)
C1_TotalThcDirectPriority ==
    (thPc = "done" /\ TotalReadings(thText) # {}) => thTotal \in TotalReadings(thText)

\* the example of the specification does come out as 18.5
C1_SpecExample ==
    (thPc = "done" /\ thText = JoinLines(<<ThcRows[1], ThcRows[12]>>)) => thTotal = Dec(185, 1)

(***************************************************************************)
(* C2  THC fallback path: when no Total (Active) THC percent or mg/g value *)
(* matches, a THCA value and a Delta-9 THC value are located independently *)
(* (percent preferred, else mg/g divided by 10); if at least one is found, *)
(* totalPercent is 0.877*thca + delta9 rounded to 2 decimals, a missing    *)
(* term taken as 0; if neither is found, totalPercent is null.             *)
(***************************************************************************)
C2_Located(pct, mg) ==
    IF pct # Null THEN pct ELSE IF mg # Null THEN DivPow10(mg, 1) ELSE Null

\* r has at most 2 decimals and lies within 0.005 of 0.877*a + d
C2_IsRounded(r, a, d) ==
    LET E == IF a.e + 3 > d.e THEN a.e + 3 ELSE d.e
        N == 877 * a.m * Pow10(E - a.e - 3) + d.m * Pow10(E - d.e)
        R == r.m * Pow10(2 - r.e)
        diff == R * Pow10(E - 2) - N
    IN  /\ r.e <= 2
        /\ 2 * diff <= Pow10(E - 2)
        /\ 2 * diff >= 0 - Pow10(E - 2)

C2_FallbackFormula ==
    LET flat == normalizeForTHC(thText)
        thca == C2_Located(thcaPct(flat), thcaMg(flat))
        d9 == C2_Located(d9Pct(flat), d9Mg(flat))
        zero == Dec(0, 0)
    IN  (thPc = "done" /\ totalPct(flat) = Null /\ totalMg(flat) = Null) =>
            IF thca = Null /\ d9 = Null THEN thTotal = Null
            ELSE /\ thTotal # Null
                 /\ C2_IsRounded(thTotal,
                                 IF thca = Null THEN zero ELSE thca,
                                 IF d9 = Null THEN zero ELSE d9)

\* THCA 20% and Delta-9 0.3% have given 17.84
C2_Witness ==
    /\ thPc = "done"
    /\ thText = JoinLines(<<ThcRows[10], ThcRows[13]>>)
    /\ thTotal = Dec(1784, 2)

(***************************************************************************)
(* C3  Delta-9 label variants: in the fallback path the Delta-9 value is   *)
(* found for each of the label variants 'Delta-9 THC', 'D9-THC' and        *)
(* 'Δ9-THC' and, as a last resort, for a bare 'THC' label; so a text whose *)
(* only cannabinoid reading is 'LABEL: x%' with one of these labels yields *)
(* totalPercent = x rather than null.                                      *)
(***************************************************************************)
Delta9Labels ==
    {<<"D", "e", "l", "t", "a", "-", "9", " ", "T", "H", "C">>,
     <<"D", "9", "-", "T", "H", "C">>,
     <<"Δ", "9", "-", "T", "H", "C">>,
     <<"T", "H", "C">>}

\* the text is exactly: label, ": ", a number, "%"
C3_IsOnlyReading(t, lab) ==
    LET c == Len(lab) + 3
    IN  /\ IsPrefixAt(t, 1, lab \o <<":", " ">>)
        /\ IsPercentReading(t, c)
        /\ ReadingEnd(t, c) = Len(t)

C3_Delta9LabelVariants ==
    \A lab \in Delta9Labels :
        (thPc = "done" /\ C3_IsOnlyReading(thText, lab)) =>
            thTotal = ReadingValue(thText, Len(lab) + 3)

\* what the code does: the two ASCII spellings are found
C3_AsciiVariantsFound ==
    \A lab \in {<<"D", "e", "l", "t", "a", "-", "9", " ", "T", "H", "C">>, <<"D", "9", "-", "T", "H", "C">>} :
        (thPc = "done" /\ C3_IsOnlyReading(thText, lab)) =>
            thTotal = ReadingValue(thText, Len(lab) + 3)

(***************************************************************************)
(* Specification SpecTerp: pickTopTerpenes, and the two fields parseCoa    *)
(* builds from it, on every text of at most MaxTerpLines different lines   *)
(* of the report lines below, joined by line breaks.                       *)
(***************************************************************************)
MaxTerpLines == 4

TerpLines ==
    << <<"M", "y", "r", "c", "e", "n", "e", " ", "3", ".", "0", "%">>,
       <<"M", "y", "r", "c", "e", "n", "e", " ", "5", ".", "0", "%">>,
       <<"P", "i", "n", "e", "n", "e", " ", "4", ".", "0", "%">>,
       <<"a", "l", "p", "h", "a", "-", "p", "i", "n", "e", "n", "e", " ", "2", ".", "0", "%">>,
       <<"β", "-", "P", "i", "n", "e", "n", "e", " ", "1", " ", "m", "g", "/", "g">>,
       <<"L", "i", "n", "a", "l", "o", "o", "l", " ", "0", "%">>,
       <<"H", "u", "m", "u", "l", "e", "n", "e", " ", "-", "0", ".", "5", "%">>,
       <<"L", "i", "m", "o", "n", "e", "n", "e", " ", "1", "0", "5", "%">> >>

TerpTexts ==
    {JoinLines([i \in DOMAIN pick |-> TerpLines[pick[i]]]) :
        pick \in {p \in UNION {[1..n -> 1..Len(TerpLines)] : n \in 0..MaxTerpLines} :
                     \A i, j \in DOMAIN p : i # j => p[i] # p[j]}}

TpInit ==
    /\ tpText \in TerpTexts
    /\ tpSeen = <<>>
    /\ tpBest = <<>>
    /\ tpRanked = <<>>
    /\ tpNames = <<>>
    /\ dominantTerpene = NoStr
    /\ otherTerpenes = <<>>
    /\ tpPc = "start"

TpIdle ==
    /\ tpText = <<>>
    /\ tpSeen = <<>>
    /\ tpBest = <<>>
    /\ tpRanked = <<>>
    /\ tpNames = <<>>
    /\ dominantTerpene = NoStr
    /\ otherTerpenes = <<>>
    /\ tpPc = "idle"

\* const names = pickTopTerpenes(text, 3), stage by stage: the line loop, the
\* Map, the sorts and the correction, slice;
\* dominantTerpene: names[0] ?? null, otherTerpenes: names.slice(1)
TpPick ==
    /\ tpPc = "start"
    /\ tpSeen' = CollectRows(tpText)
    /\ tpBest' = BestRows(tpSeen', <<>>)
    /\ tpRanked' = RankRows(tpBest')
    /\ tpNames' = TopNames(tpRanked', TopLimit)
    /\ dominantTerpene' = DominantOf(tpNames')
    /\ otherTerpenes' = OthersOf(tpNames')
    /\ tpPc' = "done"
    /\ UNCHANGED tpText
    /\ UNCHANGED NotTp

TpNext == TpPick

(***************************************************************************)
(* How the claims read the records.                                        *)
(***************************************************************************)
NameAlphaPinene == <<"a", "l", "p", "h", "a", "-", "p", "i", "n", "e", "n", "e">>
NameBetaPinene == <<"b", "e", "t", "a", "-", "p", "i", "n", "e", "n", "e">>
NamePinene == <<"p", "i", "n", "e", "n", "e">>

IsomerPresent(rows) ==
    \E k \in DOMAIN rows : rows[k].name \in {NameAlphaPinene, NameBetaPinene}

HalfOf(x) == Dec(5 * x.m, x.e + 1)

\* the percent of a record after the pinene correction
CorrectedPercent(rows, k) ==
    IF rows[k].name = NamePinene /\ IsomerPresent(rows)
    THEN HalfOf(rows[k].percent)
    ELSE rows[k].percent

\* the corrected percent of the record of a name
PercentOfName(rows, name) ==
    CorrectedPercent(rows, CHOOSE k \in DOMAIN rows : rows[k].name = name)

(***************************************************************************)
(* C4  Top-3 ranking: pickTopTerpenes returns at most 3 names, each the    *)
(* name of a deduplicated record, no name twice, in order of               *)
(* non-increasing percent (after deduplication and pinene correction), and *)
(* every record left out has a percent no greater than each returned one;  *)
(* dominantTerpene is element 0 (null for an empty list) and otherTerpenes *)
(* the remaining at most 2.                                                *)
(***************************************************************************)
C4_TopThreeRanking ==
    tpPc = "done" =>
        /\ Len(tpNames) <= 3
        /\ \A i \in DOMAIN tpNames : \E k \in DOMAIN tpBest : tpBest[k].name = tpNames[i]
        /\ \A i, j \in DOMAIN tpNames : i # j => tpNames[i] # tpNames[j]
        /\ \A i, j \in DOMAIN tpNames :
               i < j => ~Gt(PercentOfName(tpBest, tpNames[j]), PercentOfName(tpBest, tpNames[i]))
        /\ \A k \in DOMAIN tpBest :
               (\A i \in DOMAIN tpNames : tpNames[i] # tpBest[k].name) =>
                   /\ Len(tpNames) = 3
                   /\ \A i \in DOMAIN tpNames :
                          ~Gt(CorrectedPercent(tpBest, k), PercentOfName(tpBest, tpNames[i]))
        /\ dominantTerpene = (IF tpNames = <<>> THEN NoStr ELSE tpNames[1])
        /\ Len(otherTerpenes) <= 2
        /\ otherTerpenes = SubSeq(tpNames, 2, Len(tpNames))

\* four records, the halved pinene ranked third before alpha-pinene, which is left out
C4_Witness ==
    /\ tpPc = "done"
    /\ Len(tpBest) = 4
    /\ tpNames = << <<"l", "i", "m", "o", "n", "e", "n", "e">>, <<"m", "y", "r", "c", "e", "n", "e">>, <<"p", "i", "n", "e", "n", "e">> >>
    /\ dominantTerpene = <<"l", "i", "m", "o", "n", "e", "n", "e">>
    /\ otherTerpenes = << <<"m", "y", "r", "c", "e", "n", "e">>, <<"p", "i", "n", "e", "n", "e">> >>

(***************************************************************************)
(* C5  Deduplication: collectTerpenesAsPercent returns at most one record  *)
(* per name, every record is one of the rows observed, and its percent is  *)
(* the maximum over the rows observed for that name, whatever the order of *)
(* the rows.                                                               *)
(***************************************************************************)
C5_DedupKeepsMaximum ==
    tpPc = "done" =>
        /\ \A i, j \in DOMAIN tpBest : i # j => tpBest[i].name # tpBest[j].name
        /\ \A i \in DOMAIN tpBest : \E k \in DOMAIN tpSeen : tpSeen[k] = tpBest[i]
        /\ \A k \in DOMAIN tpSeen :
               \E i \in DOMAIN tpBest :
                   /\ tpBest[i].name = tpSeen[k].name
                   /\ ~Gt(tpSeen[k].percent, tpBest[i].percent)

\* myrcene observed at 5.0 and then at 3.0: the record holds 5.0
C5_Witness ==
    /\ tpPc = "done"
    /\ tpSeen = <<[name |-> <<"m", "y", "r", "c", "e", "n", "e">>, percent |-> Dec(5, 0)],
                  [name |-> <<"m", "y", "r", "c", "e", "n", "e">>, percent |-> Dec(3, 0)]>>
    /\ tpBest = <<[name |-> <<"m", "y", "r", "c", "e", "n", "e">>, percent |-> Dec(5, 0)]>>

(***************************************************************************)
(* C6  Pinene co-elution correction: the ranked rows are the deduplicated  *)
(* records, the percent of the record named pinene halved once when a      *)
(* record named alpha-pinene or beta-pinene is present, every other        *)
(* percent (and that of pinene when no isomer is present) unchanged; the   *)
(* ranked rows are in order of non-increasing percent and the names        *)
(* returned are those of the first rows.                                   *)
(***************************************************************************)
C6_PineneCorrection ==
    tpPc = "done" =>
        /\ Len(tpRanked) = Len(tpBest)
        /\ \A k \in DOMAIN tpBest :
               \E r \in DOMAIN tpRanked :
                   /\ tpRanked[r].name = tpBest[k].name
                   /\ tpRanked[r].percent = CorrectedPercent(tpBest, k)
        /\ \A r, s \in DOMAIN tpRanked :
               r < s => ~Gt(tpRanked[s].percent, tpRanked[r].percent)
        /\ \A i \in DOMAIN tpNames : tpNames[i] = tpRanked[i].name

\* {alpha-pinene: 2.0, pinene: 4.0} gives pinene 2.0
C6_Witness ==
    /\ tpPc = "done"
    /\ tpBest = <<[name |-> <<"a", "l", "p", "h", "a", "-", "p", "i", "n", "e", "n", "e">>, percent |-> Dec(2, 0)],
                  [name |-> <<"p", "i", "n", "e", "n", "e">>, percent |-> Dec(4, 0)]>>
    /\ tpRanked = <<[name |-> <<"p", "i", "n", "e", "n", "e">>, percent |-> Dec(2, 0)],
                    [name |-> <<"a", "l", "p", "h", "a", "-", "p", "i", "n", "e", "n", "e">>, percent |-> Dec(2, 0)]>>

(***************************************************************************)
(* C8  Zero and negative readings are excluded: no name returned by        *)
(* pickTopTerpenes belongs to a row whose percent is zero or negative, so  *)
(* a text whose only terpene line reads 0% has dominantTerpene null.       *)
(***************************************************************************)
C8_ZeroAndNegativeExcluded ==
    tpPc = "done" =>
        \A i \in DOMAIN tpNames :
            \A r \in DOMAIN tpRanked :
                tpRanked[r].name = tpNames[i] => Gt(tpRanked[r].percent, Dec(0, 0))

\* the place in the text where a terpene is first scanned: the index of its
\* first row in rows
FirstScanned(name) == CHOOSE k \in DOMAIN tpSeen :
    tpSeen[k].name = name /\ \A j \in 1..(k - 1) : tpSeen[j].name # name

(***************************************************************************)
(* C19  Tie-breaking: among terpenes whose percents are equal at ranking   *)
(* time, ties made by the pinene halving included, the names are returned  *)
(* in the order in which the terpenes were first scanned in the text.      *)
(***************************************************************************)
C19_TiesKeepScanOrder ==
    tpPc = "done" =>
        \A i, j \in DOMAIN tpNames :
            (i < j /\ tpRanked[i].percent = tpRanked[j].percent) =>
                FirstScanned(tpNames[i]) < FirstScanned(tpNames[j])

(***************************************************************************)
(* Specification SpecConv: one reading, a value with a unit, converted to  *)
(* percent on every path of the repository that converts readings.         *)
(***************************************************************************)
MaxCvMant == 130
MaxCvExp == 3

CvValues == {Dec(m, e) : m \in 0..MaxCvMant, e \in 0..MaxCvExp} \cup {Null}

CvUnits == { <<"%">>, <<"m", "g", "/", "g">>, <<"M", "G", "/", "G">>, <<"u", "g", "/", "g">>, <<"µ", "g", "/", "g">>, <<"p", "p", "m">> }

CvInit ==
    /\ cvVal \in CvValues
    /\ cvUnit \in CvUnits
    /\ cvMg = Null /\ cvUg = Null /\ cvCore = Null
    /\ cvServer = Null /\ cvText = Null /\ cvLab = Null
    /\ cvPc = "start"

CvIdle ==
    /\ cvVal = Null /\ cvUnit = NoStr
    /\ cvMg = Null /\ cvUg = Null /\ cvCore = Null
    /\ cvServer = Null /\ cvText = Null /\ cvLab = Null
    /\ cvPc = "idle"

CvConvert ==
    /\ cvPc = "start"
    /\ cvMg' = mgPerGToPercent(cvVal)
    /\ cvUg' = ugPerGToPercent(cvVal)
    /\ cvCore' = collectPercent(cvVal, cvUnit)
    /\ \E up \in BOOLEAN :
          /\ cvServer' = toPercent(cvVal, cvUnit, up)
          /\ cvText' = extractTerpenesFromTextPct(cvVal, cvUnit, up)
    /\ cvLab' = scrapeTrulieveLabPdfValue(cvVal, cvUnit)
    /\ cvPc' = "done"
    /\ UNCHANGED <<cvVal, cvUnit>>
    /\ UNCHANGED NotCv

CvNext == CvConvert

\* p * 10^n
TimesPow10(p, n) ==
    IF p.e >= n THEN Dec(p.m, p.e - n) ELSE Dec(p.m * Pow10(n - p.e), 0)

\* the spellings of the units
MgPerGSpellings == { <<"m", "g", "/", "g">>, <<"M", "G", "/", "G">> }
UgPerGSpellings == { <<"u", "g", "/", "g">>, <<"µ", "g", "/", "g">> }

(***************************************************************************)
(* C11  The unit conversion utilities are exact: for a value v that is not *)
(* null, mgPerGToPercent(v) is v/10 and ugPerGToPercent(v) is v/10000, and *)
(* null is mapped to null; collectTerpenesAsPercent gives a mg/g reading   *)
(* the first, a ug/g reading the second, and a % reading neither (its      *)
(* value, while that is not over 100).                                     *)
(***************************************************************************)
C11_ConversionsExact ==
    cvPc = "done" =>
        /\ cvVal = Null => (cvMg = Null /\ cvUg = Null)
        /\ cvVal # Null =>
              /\ cvMg # Null /\ TimesPow10(cvMg, 1) = cvVal
              /\ cvUg # Null /\ TimesPow10(cvUg, 4) = cvVal
              /\ cvUnit \in MgPerGSpellings => cvCore = cvMg
              /\ cvUnit \in UgPerGSpellings => cvCore = cvUg
              /\ (cvUnit = <<"%">> /\ ~Gt(cvVal, Dec(100, 0))) => cvCore = cvVal

C11_Witness ==
    /\ cvPc = "done"
    /\ cvVal = Dec(125, 2)
    /\ cvUnit = <<"m", "g", "/", "g">>
    /\ cvMg = Dec(125, 3)
    /\ cvUg = Dec(125, 6)
    /\ cvCore = Dec(125, 3)

(***************************************************************************)
(* C12  The same mass fraction on every conversion path: a mg/g reading is *)
(* its value divided by 10, and a ug/g, µg/g or ppm reading its value      *)
(* divided by 10000, on each of the paths collectTerpenesAsPercent,        *)
(* toPercent, extractTerpenesFromText and scrapeTrulieveLabPdf that takes  *)
(* the unit.                                                               *)
(***************************************************************************)
C12_SameConversionEveryPath ==
    (cvPc = "done" /\ cvVal # Null) =>
        /\ cvUnit \in MgPerGSpellings =>
              \A p \in {cvCore, cvServer, cvText, cvLab} :
                  p # Null => TimesPow10(p, 1) = cvVal
        /\ cvUnit \in UgPerGSpellings \cup { <<"p", "p", "m">> } =>
              \A p \in {cvCore, cvServer, cvText, cvLab} :
                  p # Null => TimesPow10(p, 4) = cvVal

\* what the paths do agree on: a % reading not over 100 is its value on each
C12_PercentReadingsAgree ==
    (cvPc = "done" /\ cvVal # Null /\ cvUnit = <<"%">> /\ ~Gt(cvVal, Dec(100, 0))) =>
        cvCore = cvVal /\ cvServer = cvVal /\ cvText = cvVal /\ cvLab = cvVal

(***************************************************************************)
(* Specification SpecLine: the line loop of collectTerpenesAsPercent, one  *)
(* line at a time, on documents of an optional header line that declares a *)
(* percent column, a terpene line with up to MaxLineNums numbers, and an   *)
(* optional second terpene line.                                           *)
(***************************************************************************)
MaxLineNums == 2

\* the numbers a line is made of, with and without units
LnTokens == << <<"7">>, <<"2", "%">>, <<"3", "0", " ", "m", "g", "/", "g">>, <<"4", "0", "0", " ", "u", "g", "/", "g">>, <<"0", ".", "5">> >>

LnHeaderLine == <<"A", "n", "a", "l", "y", "t", "e", " ", "A", "m", "o", "u", "n", "t", " ", "(", "%", " ", "w", "/", "w", ")">>

RECURSIVE LnWithTokens(_, _)
LnWithTokens(line, toks) ==
    IF toks = <<>> THEN line
    ELSE LnWithTokens(line \o <<" ">> \o LnTokens[Head(toks)], Tail(toks))

LnFirstLines ==
    {LnWithTokens(<<"M", "y", "r", "c", "e", "n", "e">>, toks) :
        toks \in UNION {[1..n -> 1..Len(LnTokens)] : n \in 0..MaxLineNums}}

LnSecondLines == { <<>>, <<<<"L", "i", "m", "o", "n", "e", "n", "e", " ", "1", "%">>>>, <<<<"L", "i", "n", "a", "l", "o", "o", "l", " ", "3">>>> }

LnTexts ==
    {JoinLines(h \o <<l>> \o t) :
        h \in {<<>>, <<LnHeaderLine>>}, l \in LnFirstLines, t \in LnSecondLines}

LnInit ==
    /\ lnText \in LnTexts
    /\ lnHeader = FALSE
    /\ lnLines = <<>>
    /\ lnScans = <<>>
    /\ lnRows = <<>>
    /\ lnPc = "start"

LnIdle ==
    /\ lnText = <<>>
    /\ lnHeader = FALSE
    /\ lnLines = <<>>
    /\ lnScans = <<>>
    /\ lnRows = <<>>
    /\ lnPc = "idle"

\* const percentByHeader = hasPercentContext(text); const lines = text.split(/\r?\n/);
LnBegin ==
    /\ lnPc = "start"
    /\ lnHeader' = hasPercentContext(lnText)
    /\ lnLines' = SplitLines(lnText, 1, 1)
    /\ lnPc' = "loop"
    /\ UNCHANGED <<lnText, lnScans, lnRows>>
    /\ UNCHANGED NotLn

\* what one pass of the loop finds on the cleaned line: the canonical name (null
\* when the line is no candidate), nums, the index of pick, the row pushed
ScanOf(line, percentByHeader) ==
    LET Found(name, nums) ==
            [line |-> line,
             name |-> name,
             nums |-> nums,
             pick |-> PickIndex(nums, percentByHeader),
             pushed |-> RowOfLine(line, percentByHeader)]
        OfName(name) ==
            Found(name,
                  IF name = NoStr \/ name = <<>> THEN <<>>
                  ELSE MatchAllNums(line, ToLower(line), 1))
        OfMatch(nm) == OfName(IF nm = NoStr THEN NoStr ELSE canonTerp(nm))
    IN  OfMatch(MatchedName(line))

\* for (let rawLine of lines) { ... rows.push({ name, percent: val }); }
LnScan ==
    /\ lnPc = "loop"
    /\ Len(lnScans) < Len(lnLines)
    /\ lnScans' = Append(lnScans, ScanOf(CleanLine(lnLines[Len(lnScans) + 1]), lnHeader))
    /\ lnRows' = lnRows \o lnScans'[Len(lnScans')].pushed
    /\ UNCHANGED <<lnText, lnHeader, lnLines, lnPc>>
    /\ UNCHANGED NotLn

LnEnd ==
    /\ lnPc = "loop"
    /\ Len(lnScans) = Len(lnLines)
    /\ lnPc' = "done"
    /\ UNCHANGED <<lnText, lnHeader, lnLines, lnScans, lnRows>>
    /\ UNCHANGED NotLn

LnNext == LnBegin \/ LnScan \/ LnEnd

\* the document declares a percent column: it has the header line
LnDeclaresPercent == \E k \in DOMAIN lnLines : lnLines[k] = LnHeaderLine

\* the lines scanned that are candidate terpene lines with numbers
LnCandidates == {k \in DOMAIN lnScans : lnScans[k].name # NoStr /\ lnScans[k].nums # <<>>}

\* the matches of a scan whose unit, lower-cased, contains w
LnWithUnit(scan, w) == {i \in DOMAIN scan.nums : Includes(ToLower(scan.nums[i].unit), w)}

LnMin(S) == CHOOSE i \in S : \A j \in S : i <= j

\* the match the priority of the claim chooses, 0 when none qualifies
LnPriorityIndex(scan) ==
    IF LnWithUnit(scan, <<"%">>) # {} THEN LnMin(LnWithUnit(scan, <<"%">>))
    ELSE IF LnWithUnit(scan, <<"m", "g", "/", "g">>) # {} THEN LnMin(LnWithUnit(scan, <<"m", "g", "/", "g">>))
    ELSE IF LnWithUnit(scan, <<"g">>) # {} THEN LnMin(LnWithUnit(scan, <<"g">>))
    ELSE IF LnDeclaresPercent THEN Len(scan.nums)
    ELSE 0

\* the number a match reads, from its digits
LnValueOf(n) ==
    IF n.frac = <<>> THEN Dec(DigitsVal(n.whole), 0)
    ELSE Dec(DigitsVal(n.whole \o n.frac), Len(n.frac))

\* the percent a match stands for: by its unit, as a percent when it has none
LnPercentOf(n) ==
    IF Includes(ToLower(n.unit), <<"m", "g", "/", "g">>) THEN Dec(LnValueOf(n).m, LnValueOf(n).e + 1)
    ELSE IF Includes(ToLower(n.unit), <<"g">>) THEN Dec(LnValueOf(n).m, LnValueOf(n).e + 4)
    ELSE LnValueOf(n)

(***************************************************************************)
(* C13  Measurement-token priority: on a candidate terpene line the        *)
(* measurement is chosen by priority, not by position: the first number    *)
(* with a % unit; else the first with mg/g; else the first whose unit      *)
(* contains 'g'; else, only when the document declares a percent column,   *)
(* the last number of the line.  The line pushes the row of that number,   *)
(* and no row when no number qualifies.                                    *)
(***************************************************************************)
C13_TokenPriority ==
    \A k \in LnCandidates :
        /\ lnScans[k].pick = LnPriorityIndex(lnScans[k])
        /\ lnScans[k].pick = 0 => lnScans[k].pushed = <<>>
        /\ lnScans[k].pick # 0 =>
              /\ Len(lnScans[k].pushed) = 1
              /\ lnScans[k].pushed[1].name = lnScans[k].name
              /\ lnScans[k].pushed[1].percent = LnPercentOf(lnScans[k].nums[lnScans[k].pick])

\* "Myrcene 7 2%": the second number is taken, for its unit
C13_Witness ==
    /\ lnPc = "done"
    /\ ~LnDeclaresPercent
    /\ \E k \in LnCandidates :
          /\ lnScans[k].line = <<"M", "y", "r", "c", "e", "n", "e", " ", "7", " ", "2", "%">>
          /\ Len(lnScans[k].nums) = 2
          /\ lnScans[k].pick = 2
          /\ lnScans[k].pushed = <<[name |-> <<"m", "y", "r", "c", "e", "n", "e">>, percent |-> Dec(2, 0)]>>

\* the candidate lines scanned whose numbers carry no unit
LnUnitless == {k \in LnCandidates : \A i \in DOMAIN lnScans[k].nums : lnScans[k].nums[i].unit = <<>>}

RECURSIVE LnAllPushed(_)
LnAllPushed(scans) ==
    IF scans = <<>> THEN <<>> ELSE Head(scans).pushed \o LnAllPushed(Tail(scans))

(***************************************************************************)
(* C17  Ambiguous-unit observations are dropped: a candidate terpene line  *)
(* whose numbers carry no unit pushes no row when the document declares no *)
(* percent column, and pushes its last number as a percent when it does;   *)
(* the rows are those of all lines scanned, in order, so that dropping a   *)
(* line takes nothing from the others.                                     *)
(***************************************************************************)
C17_AmbiguousUnitDropped ==
    /\ \A k \in LnUnitless :
          /\ ~LnDeclaresPercent => lnScans[k].pushed = <<>>
          /\ LnDeclaresPercent =>
                lnScans[k].pushed =
                    <<[name |-> lnScans[k].name,
                       percent |-> LnValueOf(lnScans[k].nums[Len(lnScans[k].nums)])]>>
    /\ lnRows = LnAllPushed(lnScans)

\* "Myrcene 7 0.5" is dropped, the row of "Limonene 1%" after it is kept
C17_Witness ==
    /\ lnPc = "done"
    /\ ~LnDeclaresPercent
    /\ Len(lnScans) = 2
    /\ lnScans[1].line = <<"M", "y", "r", "c", "e", "n", "e", " ", "7", " ", "0", ".", "5">>
    /\ 1 \in LnUnitless
    /\ lnScans[1].pushed = <<>>
    /\ lnRows = <<[name |-> <<"l", "i", "m", "o", "n", "e", "n", "e">>, percent |-> Dec(1, 0)]>>

(***************************************************************************)
(* Specification SpecCoa: parseCoa, from the text of the document on, on   *)
(* documents of up to MaxCoaLines lines of a report: strain labels, type   *)
(* sources, a terpene reading, a THC reading.                              *)
(***************************************************************************)
MaxCoaLines == 2

CoaLines ==
    << <<"S", "t", "r", "a", "i", "n", ":", " ", "B", "l", "u", "e", " ", "D", "r", "e", "a", "m">>,
       <<"C", "u", "l", "t", "i", "v", "a", "r", "(", "s", ")", ":", " ", "G", "e", "l", "a", "t", "o", " ", " ", "4", "1", " ">>,
       <<"S", "a", "m", "p", "l", "e", " ", "A", "l", "i", "a", "s", ":", " ", "G", "G", "4">>,
       <<"P", "r", "o", "d", "u", "c", "t", " ", "N", "a", "m", "e", ":", " ", "O", "G", " ", "K", "u", "s", "h">>,
       <<"I", "t", "e", "m", ":", " ", "R", "u", "n", "t", "z">>,
       <<"T", "y", "p", "e", ":", " ", "P", "r", "e", "-", "R", "o", "l", "l">>,
       <<"H", "y", "b", "r", "i", "d", " ", "f", "l", "o", "w", "e", "r">>,
       <<"T", "R", "U", "-", "F", "l", "o", "w", "e", "r", "-", "G", "G", "4", "-", "S", "-", "F", "L">>,
       <<"M", "y", "r", "c", "e", "n", "e", " ", "2", "%">>,
       <<"T", "H", "C", "A", ":", " ", "2", "0", "%">> >>

\* the lines of a document, as indices of CoaLines: no line twice
CoaDocs ==
    {d \in UNION {[1..n -> 1..Len(CoaLines)] : n \in 0..MaxCoaLines} :
        \A i, j \in DOMAIN d : i # j => d[i] # d[j]}

CoaText(d) == JoinLines([i \in DOMAIN d |-> CoaLines[d[i]]])

CoInit ==
    /\ coParts \in CoaDocs
    /\ coText = CoaText(coParts)
    /\ coStrain = NoStr
    /\ coType = NoStr
    /\ coNames = <<>>
    /\ coDominant = NoStr
    /\ coOthers = <<>>
    /\ coThc = Null
    /\ coServerType = NoStr
    /\ coPc = "start"

CoIdle ==
    /\ coParts = <<>>
    /\ coText = <<>>
    /\ coStrain = NoStr
    /\ coType = NoStr
    /\ coNames = <<>>
    /\ coDominant = NoStr
    /\ coOthers = <<>>
    /\ coThc = Null
    /\ coServerType = NoStr
    /\ coPc = "idle"

\* parseCoa, once the text is there; the server's parseType on the same text
CoParse ==
    /\ coPc = "start"
    /\ coStrain' = parseStrain(coText)
    /\ coNames' = pickTopTerpenes(coText, TopLimit)
    /\ coThc' = parseTHC(coText)
    /\ coType' = extractType(coText)
    /\ coDominant' = DominantOf(coNames')
    /\ coOthers' = OthersOf(coNames')
    /\ coServerType' = parseType(coText)
    /\ coPc' = "done"
    /\ UNCHANGED <<coParts, coText>>
    /\ UNCHANGED NotCo

CoNext == CoParse

\* line k of CoaLines is in the document
CoHas(k) == \E i \in DOMAIN coParts : coParts[i] = k

\* the document without the lines that are not in S
RECURSIVE CoOnly(_, _)
CoOnly(d, S) ==
    IF d = <<>> THEN <<>>
    ELSE (IF Head(d) \in S THEN <<Head(d)>> ELSE <<>>) \o CoOnly(Tail(d), S)

(***************************************************************************)
(* C14  Type resolution order: the type is that of the first source that   *)
(* matches among (a) a bare word Sativa/Indica/Hybrid anywhere in the      *)
(* text, (b) a labelled "Type:" row, (c) a product-code suffix -I-/-H-/-S- *)
(* mapped to Indica/Hybrid/Sativa; it is null only when none matches.      *)
(***************************************************************************)
C14_TypeResolutionOrder ==
    coPc = "done" =>
        coType = (IF CoHas(7) THEN <<"H", "y", "b", "r", "i", "d">>
                  ELSE IF CoHas(6) THEN <<"P", "r", "e", "-", "R", "o", "l", "l">>
                  ELSE IF CoHas(8) THEN <<"S", "a", "t", "i", "v", "a">>
                  ELSE NoStr)

\* what extractType does hold to: the bare word, else the "Type:" row, else null
C14_WordThenRowOnly ==
    coPc = "done" =>
        coType = (IF CoHas(7) THEN <<"H", "y", "b", "r", "i", "d">>
                  ELSE IF CoHas(6) THEN <<"P", "r", "e", "-", "R", "o", "l", "l">>
                  ELSE NoStr)

(***************************************************************************)
(* C15  Strain-name label priority: parseStrain returns the value of the   *)
(* first of the labels "Strain:", "Cultivar(s):", "Sample Alias:",         *)
(* "Product Name:", "Item:" that occurs in the text, wherever the labels   *)
(* stand, trimmed and with white space runs collapsed; each label alone    *)
(* gives a name, and the result is null only when none occurs.             *)
(***************************************************************************)
C15_StrainLabelPriority ==
    coPc = "done" =>
        coStrain = (IF CoHas(1) THEN <<"B", "l", "u", "e", " ", "D", "r", "e", "a", "m">>
                    ELSE IF CoHas(2) THEN <<"G", "e", "l", "a", "t", "o", " ", "4", "1">>
                    ELSE IF CoHas(3) THEN <<"G", "G", "4">>
                    ELSE IF CoHas(4) THEN <<"O", "G", " ", "K", "u", "s", "h">>
                    ELSE IF CoHas(5) THEN <<"R", "u", "n", "t", "z">>
                    ELSE NoStr)

\* what parseStrain does hold to: the first four labels in their order, no "Item:"
C15_FirstFourLabels ==
    coPc = "done" =>
        coStrain = (IF CoHas(1) THEN <<"B", "l", "u", "e", " ", "D", "r", "e", "a", "m">>
                    ELSE IF CoHas(2) THEN <<"G", "e", "l", "a", "t", "o", " ", "4", "1">>
                    ELSE IF CoHas(3) THEN <<"G", "G", "4">>
                    ELSE IF CoHas(4) THEN <<"O", "G", " ", "K", "u", "s", "h">>
                    ELSE NoStr)

(***************************************************************************)
(* C16  No fatal errors: every text, the empty text included, is parsed to *)
(* the end; a text with nothing to extract gives strain null, type null,   *)
(* dominantTerpene null, otherTerpenes [] and thc.totalPercent null; and a *)
(* field is what its own lines make it, whatever the other fields find or  *)
(* miss.                                                                   *)
(***************************************************************************)
C16_MissingFieldsAreNull ==
    coPc = "done" =>
        /\ (~\E k \in 1..4 : CoHas(k)) => coStrain = NoStr
        /\ (~\E k \in 6..7 : CoHas(k)) => coType = NoStr
        /\ ~CoHas(9) => (coDominant = NoStr /\ coOthers = <<>>)
        /\ ~CoHas(10) => coThc = Null
        /\ coStrain = parseStrain(CoaText(CoOnly(coParts, 1..5)))
        /\ coType = extractType(CoaText(CoOnly(coParts, 6..8)))
        /\ coNames = pickTopTerpenes(CoaText(CoOnly(coParts, {9})), TopLimit)
        /\ coDominant = (IF coNames = <<>> THEN NoStr ELSE coNames[1])
        /\ coThc = parseTHC(CoaText(CoOnly(coParts, {10})))

\* every document is parsed: none is left at the start
C16_Witness ==
    /\ coPc = "done"
    /\ coText = <<>>
    /\ coStrain = NoStr
    /\ coType = NoStr
    /\ coDominant = NoStr
    /\ coOthers = <<>>
    /\ coThc = Null

(***************************************************************************)
(* Specification SpecJoin: joinWeirdDecimals on two digit groups with      *)
(* something between them and something after them.                        *)
(***************************************************************************)
MaxGroupDigits == 3

JwDigits == <<"2", "5", "0", "5", "1">>

\* the first group, what separates the groups, the second group, what follows
JwFirsts == { <<"1">>, <<"1", "2">> }
JwLoneSeparators == { <<".">>, <<",">>, <<" ", ".", " ">>, <<",", " ">> }
JwSpaces == { <<" ">>, <<" ", " ">> }
JwLabels == { <<" ", "T", "H", "C", " ">>, <<"%", " ", "C", "B", "D", " ">> }
JwSeconds == {SubSeq(JwDigits, 1, n) : n \in 1..MaxGroupDigits}
JwRests == { <<>>, <<"%">>, <<" ", "%">>, <<" ", "m", "g", "/", "g">> }

JwInputs ==
    [first : JwFirsts,
     sep : JwLoneSeparators \cup JwSpaces \cup JwLabels,
     second : JwSeconds,
     rest : JwRests]

\* the argument as a string
JwText(in) == in.first \o in.sep \o in.second \o in.rest

JwInit ==
    /\ jwIn \in JwInputs
    /\ jwOut = <<>>
    /\ jwPc = "start"

JwIdle == jwIn = <<>> /\ jwOut = <<>> /\ jwPc = "idle"

JwApply ==
    /\ jwPc = "start"
    /\ jwOut' = joinWeirdDecimals(JwText(jwIn))
    /\ jwPc' = "done"
    /\ UNCHANGED jwIn
    /\ UNCHANGED NotJw

JwNext == JwApply

(***************************************************************************)
(* C18  Decimal repair is local: joinWeirdDecimals merges two digit groups *)
(* into one decimal only when they are separated by a lone '.' or ','      *)
(* (with optional white space) or by a run of 2 or more spaces right       *)
(* before a unit symbol; two numbers separated by a single space, or by    *)
(* label text, are never merged, and a text with no such split decimal is  *)
(* returned unchanged.                                                     *)
(***************************************************************************)
C18_DecimalRepairLocal ==
    jwPc = "done" =>
        /\ jwIn.sep = <<" ">> => jwOut = JwText(jwIn)
        /\ jwIn.sep \in JwLabels => jwOut = JwText(jwIn)
        /\ jwOut # JwText(jwIn) =>
              \/ jwIn.sep \in JwLoneSeparators
              \/ (jwIn.sep = <<" ", " ">> /\ jwIn.rest # <<>> /\ jwIn.rest[Len(jwIn.rest)] = "%")

\* what joinWeirdDecimals does hold to: it changes the text only across a lone
\* separator, or across white space (a single space too) before a percent sign
C18_RepairAcrossSeparatorOrSpace ==
    jwPc = "done" =>
        /\ jwIn.sep \in JwLabels => jwOut = JwText(jwIn)
        /\ jwOut # JwText(jwIn) =>
              \/ jwIn.sep \in JwLoneSeparators
              \/ (jwIn.sep \in JwSpaces /\ jwIn.rest # <<>> /\ jwIn.rest[Len(jwIn.rest)] = "%")

(***************************************************************************)
(* Specification SpecServer: the server from its start on.  The requests   *)
(* are served one after the other: a handler reads and writes the strain   *)
(* list in one synchronous stretch, so the awaits of two handlers that     *)
(* overlap leave the list as one of these orders does.  Of the handlers    *)
(* the specification has those that write the list; saveDB is taken to     *)
(* succeed.                                                                *)
(***************************************************************************)

\* the lists of the runs hold no more strains than this
MaxStored == 2

\* nothing asked, nothing answered yet
NoRequest == [k |-> "none"]

\* a request body; a property the body lacks is Undefined (NoValue for terpenes)
PostBody(code, name, thc, terpenes, type) ==
    [code |-> code, name |-> name, thc |-> thc, bucket |-> Undefined,
     lean |-> Undefined, terpenes |-> terpenes, type |-> type]

PostCoaUrl == <<"h", "t", "t", "p", "s", ":", "/", "/", "l", "a", "b", ".", "e", "x", "a", "m", "p", "l", "e", "/", "c", "o", "a", "/", "2", "0", "2", "4", "%", "2", "D", "1", "1", "7", ".", "p", "d", "f">>

PostBodies ==
    { PostBody(Undefined, Undefined, Undefined, NoValue, Undefined),
      PostBody(Undefined, <<>>, <<"2", "3", ".", "5", "%">>, NoValue, Undefined),
      PostBody(PostCoaUrl, <<" ", " ">>, Undefined, NoValue, <<"I", "n", "d", "i", "c", "a">>),
      PostBody(Undefined, <<"B", "l", "u", "e", " ", "D", "r", "e", "a", "m">>, <<"2", "3", ".", "5", "%">>,
               [k |-> "string", v |-> <<"M", "y", "r", "c", "e", "n", "e", ";", " ", "L", "i", "m", "o", "n", "e", "n", "e">>], <<"I", "n", "d", "i", "c", "a">>),
      PostBody(Undefined, <<"b", "l", "u", "e", "-", "d", "r", "e", "a", "m">>, Undefined, NoValue, Undefined),
      PostBody(PostCoaUrl, <<"O", "G", " ", "K", "u", "s", "h">>, <<"1", "9">>,
               [k |-> "array", v |-> << <<"P", "i", "n", "e", "n", "e">>, <<"L", "i", "n", "a", "l", "o", "o", "l">>, <<"H", "u", "m", "u", "l", "e", "n", "e">>, <<"O", "c", "i", "m", "e", "n", "e">> >>],
               <<"S", "a", "t", "i", "v", "a">>) }

\* normalizeStrain({ code: safeDecode(code || ''), name, thc, bucket, lean, terpenes, type })
PostedStrain(body) ==
    normalizeStrain([id |-> Undefined,
                     code |-> safeDecode(IF Truthy(body.code) THEN body.code ELSE <<>>),
                     name |-> body.name,
                     thc |-> body.thc,
                     bucket |-> body.bucket,
                     lean |-> body.lean,
                     terpenes |-> body.terpenes,
                     type |-> body.type])

\* the requests of the runs with their strains
PostBlank == { body \in PostBodies : ~Truthy(body.name) \/ Trim(body.name) = <<>> }
PostNamed == { [body |-> body, strain |-> PostedStrain(body)] : body \in PostBodies \ PostBlank }

\* codes that a query, a decoder or the OCR hands to scrapeFromCode
DemoCode == <<"W", "e", "d", "d", "i", "n", "g", "-", "C", "a", "k", "e">>
TrulieveCode == <<"h", "t", "t", "p", "s", ":", "/", "/", "w", "w", "w", ".", "t", "r", "u", "l", "i", "e", "v", "e", ".", "c", "o", "m", "/", "f", "i", "l", "e", "s", "/", "w", "e", "d", "d", "i", "n", "g", "-", "c", "a", "k", "e", "-", "2", "0", "2", "4", "1", "1", "7", ".", "p", "d", "f">>
LabCode == <<"h", "t", "t", "p", "s", ":", "/", "/", "l", "a", "b", ".", "e", "x", "a", "m", "p", "l", "e", "/", "c", "o", "a", "/", "b", "l", "u", "e", "-", "d", "r", "e", "a", "m", ".", "p", "d", "f">>
BarCode == <<"0", "6", "1", "2", "3", "4", "5">>

\* what scrapeTrulieveLabPdf gives: nothing, an exception, or the strain of the report
ScrapedStrain ==
    [name |-> <<"W", "e", "d", "d", "i", "n", "g", " ", "C", "a", "k", "e">>, thc |-> <<"2", "1", ".", "4">>, bucket |-> <<"i", "n", "d", "i", "c", "a", "_", "l", "e", "a", "n", "i", "n", "g">>,
     type |-> <<"I", "n", "d", "i", "c", "a">>, terpenes |-> << <<"M", "y", "r", "c", "e", "n", "e">> >>]

Scrapes == { Null, Threw, ScrapedStrain }

\* scrapeTrulieveLabPdf is called for the reports of trulieve.com only
ScrapesOf(code) == IF IsTrulievePdf(code) THEN Scrapes ELSE { Null }

\* what the data file holds when the server starts: no file, no JSON, JSON that is
\* no array, or the list an earlier run of the server saved
SavedList(list) == [k |-> "array", v |-> list]

DbFiles ==
    { [k |-> "missing"], [k |-> "garbage"], [k |-> "object"],
      SavedList(<< normalizeStrain(WithCode(ScrapedStrain, TrulieveCode)) >>) }

SvInit ==
    /\ STRAINS = <<>>
    /\ reqBody = NoRequest
    /\ resStatus = 0
    /\ resBody = NoRequest
    /\ svPc = "starting"
    /\ dbFile \in DbFiles
    /\ dbPc = "pending"
    /\ svUpsert = NoRequest
    /\ upRan = <<>>

SvIdle ==
    /\ STRAINS = <<>>
    /\ reqBody = NoRequest
    /\ resStatus = 0
    /\ resBody = NoRequest
    /\ svPc = "idle"
    /\ dbFile = [k |-> "missing"]
    /\ dbPc = "idle"
    /\ svUpsert = NoRequest
    /\ upRan = <<>>

(***************************************************************************)
(* async function loadDB(): called once, by the start of the server        *)
(***************************************************************************)
LoadDB ==
    /\ dbPc = "pending"
    /\ STRAINS' = IF dbFile.k = "array" THEN dbFile.v ELSE STRAINS
    /\ dbPc' = IF dbFile.k \in {"array", "object"} THEN "loaded" ELSE "fresh"
    /\ svPc' = svPc
    /\ UNCHANGED <<reqBody, resStatus, resBody, dbFile, svUpsert, upRan>>
    /\ UNCHANGED NotSv

\* the call of app.listen makes no request served before the loadDB resolved
loadDBNotAwaited == TRUE

\* await loadDB(); app.listen(PORT, HOST, ...)
loadDBAwaited == dbPc # "pending"

Listen ==
    /\ svPc = "starting"
    /\ loadDBAwaited
    /\ svPc' = "listening"
    /\ UNCHANGED <<STRAINS, reqBody, resStatus, resBody, dbFile, dbPc, svUpsert, upRan>>
    /\ UNCHANGED NotSv

\* the server listens and no request is being served
Ready ==
    svPc \in {"listening", "POST /api/strains", "GET /api/strains/resolve", "POST /api/scan",
              "POST /api/strains/scan-upload"}

\* upsertStrain(s) of a handler: the list, the file saveDB writes, the strain
Stored(list, s) ==
    /\ Len(list) <= MaxStored
    /\ STRAINS' = list
    /\ dbFile' = SavedList(list)
    /\ svUpsert' = s

Upsert(s) == Stored(upsertStrain(s), s)

NoUpsert ==
    /\ svUpsert' = NoRequest
    /\ UNCHANGED <<STRAINS, dbFile>>

\* app.post('/api/strains', ...): name missing or blank
PostStrainsRejected ==
    /\ Ready
    /\ \E body \in PostBlank :
          /\ reqBody' = body
          /\ resStatus' = 400
          /\ resBody' = [error |-> "name is required"]
    /\ svPc' = "POST /api/strains"
    /\ NoUpsert
    /\ upRan' = <<>>
    /\ UNCHANGED dbPc
    /\ UNCHANGED NotSv

\* app.post('/api/strains', ...): the strain is normalized, upserted and returned
PostStrainsCreated ==
    /\ Ready
    /\ \E post \in PostNamed :
          /\ reqBody' = post.body
          /\ resStatus' = 201
          /\ resBody' = post.strain
          /\ Upsert(post.strain)
    /\ svPc' = "POST /api/strains"
    /\ upRan' = <<>>
    /\ UNCHANGED dbPc
    /\ UNCHANGED NotSv

(***************************************************************************)
(* app.get('/api/strains/resolve', ...).  The query has code and upsert,   *)
(* each a string or Undefined.  scrapeFromCode catches what the scraper    *)
(* throws, so nothing reaches the catch that answers 500.                  *)
(***************************************************************************)
ResolveQuery(code, upsert) == [code |-> code, upsert |-> upsert]

ResolveQueries ==
    { ResolveQuery(Undefined, <<"1">>),
      ResolveQuery(<<"%", "2", "0">>, <<"1">>),
      ResolveQuery(<<" ", "W", "e", "d", "d", "i", "n", "g", "%", "2", "D", "C", "a", "k", "e">>, Undefined),
      ResolveQuery(<<" ", "W", "e", "d", "d", "i", "n", "g", "%", "2", "D", "C", "a", "k", "e">>, <<"1">>),
      ResolveQuery(TrulieveCode, <<"t", "r", "u", "e">>),
      ResolveQuery(TrulieveCode, <<"1">>),
      ResolveQuery(BarCode, <<"1">>) }

\* const code = safeDecode(raw).trim();
ResolveCode(query) == Trim(safeDecode(IF query.code = Undefined THEN <<>> ELSE query.code))

\* const data = await scrapeFromCode(code); const norm = normalizeStrain({ ...data, code });
Resolved(code, data) == IF data = Null THEN Null ELSE normalizeStrain(WithCode(data, code))

\* the queries of the runs with their code and, for each scrape, what the code resolves to
ResolveCases ==
    UNION { { [query |-> query, code |-> ResolveCode(query),
               norm |-> Resolved(ResolveCode(query), scrapeFromCode(ResolveCode(query), scraped))] :
                 scraped \in ScrapesOf(ResolveCode(query)) } : query \in ResolveQueries }

\* the query asks for every code
UpsertAskedAlways(query) == TRUE

\* String(req.query.upsert || '') === '1'
UpsertAsked(query) == query.upsert = <<"1">>

ResolveAnswer(query, code, norm) ==
    IF code = <<>>
    THEN resStatus' = 400 /\ resBody' = [error |-> "Missing code"] /\ NoUpsert
    ELSE IF norm = Null
    THEN resStatus' = 404 /\ resBody' = [error |-> "Not found"] /\ NoUpsert
    ELSE /\ resStatus' = 200
         /\ resBody' = norm
         /\ IF UpsertAsked(query) THEN Upsert(norm) ELSE NoUpsert

GetResolve ==
    /\ Ready
    /\ \E case \in ResolveCases :
          /\ reqBody' = case.query
          /\ ResolveAnswer(case.query, case.code, case.norm)
    /\ svPc' = "GET /api/strains/resolve"
    /\ upRan' = <<>>
    /\ UNCHANGED dbPc
    /\ UNCHANGED NotSv

(***************************************************************************)
(* app.post('/api/scan', ...).  parsed is what parseCoa(url) gives: the    *)
(* fields of a report, or an exception.                                    *)
(***************************************************************************)
ScanBodies == { [url |-> Undefined, link |-> Undefined], [url |-> Undefined, link |-> LabCode] }

ParsedCoas ==
    { Threw,
      [strain |-> NoStr, type |-> <<"I", "n", "d", "i", "c", "a">>, dominantTerpene |-> <<"β", "-", "M", "y", "r", "c", "e", "n", "e">>,
       otherTerpenes |-> << <<"d", "-", "L", "i", "m", "o", "n", "e", "n", "e">> >>, totalPercent |-> <<"2", "3", ".", "5">>] }

\* String(req.body?.url || req.body?.link || '').trim()
ScanUrl(body) ==
    Trim(IF Truthy(body.url) THEN body.url ELSE IF Truthy(body.link) THEN body.link ELSE <<>>)

\* the bodies of the runs with their url and, for each report, the strain
ScanCases ==
    { [body |-> body, url |-> ScanUrl(body), parsed |-> parsed,
       strain |-> IF ScanUrl(body) = <<>> \/ parsed = Threw THEN Null
                  ELSE normalizeStrain(coalesceParsedToStrain(parsed, ScanUrl(body)))] :
          body \in ScanBodies, parsed \in ParsedCoas }

ScanAnswer(url, parsed, norm) ==
    IF url = <<>>
    THEN resStatus' = 400 /\ resBody' = [error |-> "Missing url"] /\ NoUpsert
    ELSE IF parsed = Threw
    THEN resStatus' = 500 /\ resBody' = [error |-> "scan_failed"] /\ NoUpsert
    ELSE /\ resStatus' = 200
         /\ resBody' = [strain |-> norm, saved |-> TRUE]
         /\ Upsert(norm)

PostScan ==
    /\ Ready
    /\ \E case \in ScanCases :
          /\ reqBody' = case.body
          /\ ScanAnswer(case.url, case.parsed, case.strain)
    /\ svPc' = "POST /api/scan"
    /\ upRan' = <<>>
    /\ UNCHANGED dbPc
    /\ UNCHANGED NotSv

(***************************************************************************)
(* app.post('/api/strains/scan-upload', ...).  The request has the image   *)
(* (file) or not, and the query mode, skip_ocr and autocreate, each a      *)
(* string or Undefined.  What a stage makes of the image is the choice of  *)
(* the step: a code, nothing (NoStr), or an exception of sharp or of the   *)
(* OCR (StageThrew).                                                       *)
(***************************************************************************)
UploadRequest(file, mode, skip_ocr, autocreate) ==
    [file |-> file, mode |-> mode, skip_ocr |-> skip_ocr, autocreate |-> autocreate]

UploadRequests ==
    { UploadRequest(FALSE, Undefined, Undefined, <<"1">>),
      UploadRequest(TRUE, Undefined, Undefined, Undefined),
      UploadRequest(TRUE, Undefined, Undefined, <<"1">>),
      UploadRequest(TRUE, <<"F", "a", "s", "t">>, Undefined, <<"1">>),
      UploadRequest(TRUE, <<"f", "a", "s", "t">>, <<"1">>, Undefined),
      UploadRequest(TRUE, Undefined, <<"1">>, Undefined) }

StageThrew == <<"<throws>">>

\* what a decoder makes of the image, and what the OCR reads in it
DecoderOutcomes == { DemoCode, LabCode, BarCode, NoStr, StageThrew }
OcrOutcomes == { TrulieveCode, BarCode, NoStr, StageThrew }

\* the outcomes of a stage with, for each scrape, what the code resolves to and the stub
StageCases(outcomes) ==
    UNION { { [got |-> got,
               norm |-> IF got \in {NoStr, StageThrew} THEN Null
                        ELSE Resolved(got, scrapeFromCode(got, scraped)),
               stub |-> IF got \in {NoStr, StageThrew} THEN Null
                        ELSE normalizeStrain(StubFor(got))] :
                 scraped \in ScrapesOf(got) } : got \in outcomes }

DecoderCases == StageCases(DecoderOutcomes)
OcrCases == StageCases(OcrOutcomes)

\* the mode of a handler that never looked at the query
UploadModeAuto(query) == <<"a", "u", "t", "o">>

\* const mode = String(req.query.mode || 'auto').toLowerCase();
UploadMode(query) == IF Truthy(query.mode) THEN ToLower(query.mode) ELSE <<"a", "u", "t", "o">>

\* the decode of a stage failed with an exception: the catch of the handler
UploadFailed(message) ==
    /\ resStatus' = 422
    /\ resBody' = [error |-> "Decode failed", detail |-> message]
    /\ svPc' = "POST /api/strains/scan-upload"
    /\ NoUpsert

\* a decoder stage (fast or heavy) has the code got
UploadDecoded(got, mode, norm, stub) ==
    /\ svPc' = "POST /api/strains/scan-upload"
    /\ IF norm # Null
       THEN /\ resStatus' = 200
            /\ resBody' = [code |-> got, status |-> "resolved", mode |-> mode, strain |-> norm]
            /\ Upsert(norm)
       ELSE IF reqBody.autocreate = <<"1">>
       THEN /\ resStatus' = 200
            /\ resBody' = [code |-> got, status |-> "created", mode |-> mode, strain |-> stub]
            /\ Upsert(stub)
       ELSE /\ resStatus' = 404
            /\ resBody' = [code |-> got, status |-> "not_found", mode |-> mode]
            /\ NoUpsert

\* the OCR has the code ocrUrl
UploadRead(ocrUrl, norm) ==
    /\ svPc' = "POST /api/strains/scan-upload"
    /\ IF norm # Null
       THEN /\ resStatus' = 200
            /\ resBody' = [code |-> ocrUrl, status |-> "resolved_via_ocr", mode |-> "ocr",
                           strain |-> norm]
            /\ Upsert(norm)
       ELSE /\ resStatus' = 404
            /\ resBody' = [code |-> ocrUrl, status |-> "not_found_via_ocr", mode |-> "ocr"]
            /\ NoUpsert

\* the request arrives; without an image it is answered at once, and so it is when
\* sharp cannot read the image
UploadReceive ==
    /\ Ready
    /\ \E request \in UploadRequests, readable \in BOOLEAN :
          /\ reqBody' = request
          /\ IF ~request.file
             THEN /\ resStatus' = 400
                  /\ resBody' = [error |-> "No image provided"]
                  /\ svPc' = "POST /api/strains/scan-upload"
             ELSE IF ~readable
             THEN /\ resStatus' = 422
                  /\ resBody' = [error |-> "Decode failed", detail |-> "metadata"]
                  /\ svPc' = "POST /api/strains/scan-upload"
             ELSE /\ resStatus' = 0
                  /\ resBody' = NoRequest
                  /\ svPc' = "scan-upload fast"
    /\ upRan' = <<>>
    /\ NoUpsert
    /\ UNCHANGED dbPc
    /\ UNCHANGED NotSv

\* // FAST mode first
UploadFast ==
    /\ svPc = "scan-upload fast"
    /\ \E case \in DecoderCases :
          /\ upRan' = Append(upRan, [stage |-> "fast", got |-> case.got])
          /\ IF case.got = StageThrew THEN UploadFailed("fast")
             ELSE IF case.got # NoStr
             THEN UploadDecoded(case.got, "fast", case.norm, case.stub)
             ELSE IF UploadMode(reqBody) = <<"f", "a", "s", "t">>
             THEN /\ resStatus' = 422
                  /\ resBody' = [error |-> "Decode failed", detail |-> "fast_path_exhausted"]
                  /\ svPc' = "POST /api/strains/scan-upload"
                  /\ NoUpsert
             ELSE /\ svPc' = "scan-upload heavy"
                  /\ NoUpsert
                  /\ UNCHANGED <<resStatus, resBody>>
    /\ UNCHANGED <<reqBody, dbPc>>
    /\ UNCHANGED NotSv

\* // HEAVY fallback
UploadHeavy ==
    /\ svPc = "scan-upload heavy"
    /\ \E case \in DecoderCases :
          /\ upRan' = Append(upRan, [stage |-> "heavy", got |-> case.got])
          /\ IF case.got = StageThrew THEN UploadFailed("heavy")
             ELSE IF case.got # NoStr
             THEN UploadDecoded(case.got, "heavy", case.norm, case.stub)
             ELSE IF reqBody.skip_ocr = <<"1">>
             THEN /\ resStatus' = 422
                  /\ resBody' = [error |-> "Decode failed", detail |-> "budget_exhausted"]
                  /\ svPc' = "POST /api/strains/scan-upload"
                  /\ NoUpsert
             ELSE /\ svPc' = "scan-upload ocr"
                  /\ NoUpsert
                  /\ UNCHANGED <<resStatus, resBody>>
    /\ UNCHANGED <<reqBody, dbPc>>
    /\ UNCHANGED NotSv

\* // OCR fallback
UploadOcr ==
    /\ svPc = "scan-upload ocr"
    /\ \E case \in OcrCases :
          /\ upRan' = Append(upRan, [stage |-> "ocr", got |-> case.got])
          /\ IF case.got = StageThrew THEN UploadFailed("ocr")
             ELSE IF case.got # NoStr THEN UploadRead(case.got, case.norm)
             ELSE /\ resStatus' = 422
                  /\ resBody' = [error |-> "Decode failed", detail |-> "budget_exhausted"]
                  /\ svPc' = "POST /api/strains/scan-upload"
                  /\ NoUpsert
    /\ UNCHANGED <<reqBody, dbPc>>
    /\ UNCHANGED NotSv

SvNext ==
    \/ LoadDB
    \/ Listen
    \/ PostStrainsRejected
    \/ PostStrainsCreated
    \/ GetResolve
    \/ PostScan
    \/ UploadReceive
    \/ UploadFast
    \/ UploadHeavy
    \/ UploadOcr

(***************************************************************************)
(* Specification SpecListing: the server listens, the list holds what      *)
(* earlier requests stored, and GET /api/strains is asked.                 *)
(***************************************************************************)

\* the decimal digits that write n
RECURSIVE DecimalOf(_)
DecimalOf(n) ==
    IF n < 10 THEN <<<<"0", "1", "2", "3", "4", "5", "6", "7", "8", "9">>[n + 1]>>
    ELSE DecimalOf(n \div 10) \o <<<<"0", "1", "2", "3", "4", "5", "6", "7", "8", "9">>[(n % 10) + 1]>>

\* the list after n strains were posted, the last one in front
StoredList(n) ==
    [i \in 1..n |->
        PostedStrain(PostBody(Undefined, <<"S", "t", "r", "a", "i", "n", " ">> \o DecimalOf(n + 1 - i), Undefined, NoValue,
                              Undefined))]

StoredLists == { StoredList(0), StoredList(3), StoredList(ResponseCeiling + 1) }

\* offset and limit of the query, each a string or Undefined
ListQueries ==
    [offset : { Undefined, <<>>, <<"0">>, <<"2">>, <<"-", "1">>, <<"1", "e", "1">>, <<"a", "b", "c">>, <<"5", "0", "0", "0">> },
     limit : { Undefined, <<>>, <<"0">>, <<"2">>, <<"6", "0", "0", "0">>, <<"a", "b", "c">>, <<"-", "3">> }]

LsInit ==
    /\ STRAINS \in StoredLists
    /\ reqBody = NoRequest
    /\ resStatus = 0
    /\ resBody = NoRequest
    /\ svPc = "listening"
    /\ dbFile = SavedList(STRAINS)
    /\ dbPc = "loaded"
    /\ svUpsert = NoRequest
    /\ upRan = <<>>

GetStrains ==
    /\ svPc \in {"listening", "GET /api/strains"}
    /\ \E query \in ListQueries :
          /\ reqBody' = query
          /\ resStatus' = 200
          /\ resBody' = ListStrains(query, STRAINS)
    /\ svPc' = "GET /api/strains"
    /\ upRan' = <<>>
    /\ NoUpsert
    /\ UNCHANGED dbPc
    /\ UNCHANGED NotSv

LsNext == GetStrains

\* the name of the request is missing or blank
PostNameBlank(body) == body.name = Undefined \/ \A i \in DOMAIN body.name : body.name[i] = " "

(***************************************************************************)
(* C20  POST /api/strains is create-or-upsert with a required name: a      *)
(* request whose name is missing or blank is answered 400 and leaves the   *)
(* strain list unchanged; a request with a name that is not blank is       *)
(* answered 201 with the normalized strain, after which the list has       *)
(* exactly one entry with the id of that strain, and that entry equals the *)
(* strain returned.                                                        *)
(***************************************************************************)
C20_PostStrainsUpsert ==
    [][svPc' = "POST /api/strains" =>
          IF PostNameBlank(reqBody')
          THEN resStatus' = 400 /\ STRAINS' = STRAINS
          ELSE /\ resStatus' = 201
               /\ resBody'.name = reqBody'.name
               /\ Cardinality({i \in DOMAIN STRAINS' : STRAINS'[i].id = resBody'.id}) = 1
               /\ \A i \in DOMAIN STRAINS' :
                     STRAINS'[i].id = resBody'.id => STRAINS'[i] = resBody']_vars

\* "blue-dream" was posted over "Blue Dream": one entry, in its old place, the new one
C20_Witness ==
    /\ svPc = "POST /api/strains"
    /\ resStatus = 201
    /\ Len(STRAINS) = 2
    /\ STRAINS[2] = resBody
    /\ resBody.id = <<"b", "l", "u", "e", "d", "r", "e", "a", "m">>
    /\ resBody.name = <<"b", "l", "u", "e", "-", "d", "r", "e", "a", "m">>
    /\ STRAINS[1].id = <<"2", "0", "2", "4", "1", "1", "7">>

\* the code a resolve query asks for has 'wedding-cake' in it, in any case
AsksDemo(query) == Includes(ToLower(ResolveCode(query)), <<"w", "e", "d", "d", "i", "n", "g", "-", "c", "a", "k", "e">>)

(***************************************************************************)
(* C21  Demo resolution: for every decoded code that contains              *)
(* 'wedding-cake' (in any case) scrapeFromCode returns the demo            *)
(* 'Wedding Cake' strain, never null, also for a report of trulieve.com    *)
(* whose download or scrape fails: GET /api/strains/resolve answers 200    *)
(* with the normalized demo strain.                                        *)
(***************************************************************************)
C21_DemoResolution ==
    (svPc = "GET /api/strains/resolve" /\ AsksDemo(reqBody)) =>
        /\ resStatus = 200
        /\ resBody = normalizeStrain(WithCode(DemoStrain, ResolveCode(reqBody)))

\* what does hold: the answer is never 404, and it is the demo strain unless the
\* scrape of a report of trulieve.com succeeded
C21_DemoUnlessScraped ==
    (svPc = "GET /api/strains/resolve" /\ AsksDemo(reqBody)) =>
        /\ resStatus = 200
        /\ \/ resBody = normalizeStrain(WithCode(DemoStrain, ResolveCode(reqBody)))
           \/ /\ IsTrulievePdf(ResolveCode(reqBody))
              /\ resBody = normalizeStrain(WithCode(ScrapedStrain, ResolveCode(reqBody)))

\* the stages of a scan-upload request
UploadStages == {"scan-upload fast", "scan-upload heavy", "scan-upload ocr"}

\* every scrape resolves the code; no scrape does
CanResolve(code) == \A scraped \in Scrapes : scrapeFromCode(code, scraped) # Null
CannotResolve(code) == \A scraped \in Scrapes : scrapeFromCode(code, scraped) = Null

\* the answer to a code that the stages in from decoded
AutocreateAnswer(from) ==
    (/\ svPc \in from
     /\ svPc' = "POST /api/strains/scan-upload"
     /\ upRan' # <<>>
     /\ upRan'[Len(upRan')].got \notin {NoStr, StageThrew}) =>
        LET got == upRan'[Len(upRan')].got
            guess == guessNameFromCode(got)
        IN  IF CanResolve(got)
            THEN /\ resStatus' = 200
                 /\ resBody'.status = "resolved"
                 /\ \E i \in DOMAIN STRAINS' : STRAINS'[i] = resBody'.strain
            ELSE IF CannotResolve(got) /\ reqBody'.autocreate = <<"1">>
            THEN /\ resStatus' = 200
                 /\ resBody'.status = "created"
                 /\ resBody'.strain.name = (IF guess \in {NoStr, <<>>} THEN <<"U", "n", "k", "n", "o", "w", "n", " ", "S", "t", "r", "a", "i", "n">> ELSE guess)
                 /\ resBody'.strain.bucket = <<"h", "y", "b", "r", "i", "d">>
                 /\ resBody'.strain.terpenes = <<>>
                 /\ \E i \in DOMAIN STRAINS' : STRAINS'[i] = resBody'.strain
            ELSE IF CannotResolve(got)
            THEN /\ resStatus' = 404
                 /\ resBody'.status = "not_found"
                 /\ STRAINS' = STRAINS
            ELSE TRUE

C22_AutocreateOfDecoders ==
    [][AutocreateAnswer({"scan-upload fast", "scan-upload heavy"})]_vars

\* the query has no limit, and its offset is absent or written in digits
NoLimit(query) == query.limit = Undefined
PlainOffset(query) ==
    \/ query.offset = Undefined
    \/ query.offset # <<>> /\ \A i \in DOMAIN query.offset : query.offset[i] \in Digits
OffsetOf(query) == IF query.offset = Undefined THEN 0 ELSE DigitsVal(query.offset)

\* the answer of GET /api/strains when no answer may hold more than ceiling strains
ListingAnswer(ceiling) ==
    svPc' = "GET /api/strains" =>
        /\ STRAINS' = STRAINS
        /\ resBody'.total = Len(STRAINS)
        /\ (NoLimit(reqBody') /\ PlainOffset(reqBody')) =>
              resBody'.strains =
                  SubSeq(STRAINS, OffsetOf(reqBody') + 1,
                         IF Len(STRAINS) - OffsetOf(reqBody') > ceiling
                         THEN OffsetOf(reqBody') + ceiling
                         ELSE Len(STRAINS))
        /\ Len(resBody'.strains) <= ResponseCeiling

(***************************************************************************)
(* C23  Listing without a limit: GET /api/strains with no limit returns    *)
(* every stored strain from the offset to the end of the list, in stored   *)
(* order, with the number stored as the total; a limit only bounds the     *)
(* size of the one answer (at most 5000), and the request never changes    *)
(* the list.                                                               *)
(***************************************************************************)
C23_ListingWithoutLimit == [][ListingAnswer(Len(STRAINS))]_vars

\* what does hold: the strains from the offset on, 5000 of them at most
C23_ListingUpToCeiling == [][ListingAnswer(ResponseCeiling)]_vars

\* the request served is a scan-upload request that came with an image
UploadServed ==
    /\ svPc \in UploadStages \cup {"POST /api/strains/scan-upload"}
    /\ reqBody.file

\* the request asks for the fast mode, for no OCR
AsksFast == reqBody.mode # Undefined /\ ToLower(reqBody.mode) = <<"f", "a", "s", "t">>
AsksNoOcr == reqBody.skip_ocr = <<"1">>

\* the stages run so far are the first of fast, heavy, OCR, each but the last
\* having decoded nothing
StagesInOrder ==
    /\ Len(upRan) <= 3
    /\ \A i \in DOMAIN upRan : upRan[i].stage = <<"fast", "heavy", "ocr">>[i]
    /\ \A i \in DOMAIN upRan : i < Len(upRan) => upRan[i].got = NoStr

\* the request has its answer if and only if no stage is left to run; the answer
\* to a code is made from that code
AnsweredOnce ==
    /\ svPc \in UploadStages => (resStatus = 0 /\ resBody = NoRequest)
    /\ svPc = "scan-upload fast" => upRan = <<>>
    /\ svPc = "scan-upload heavy" => Len(upRan) = 1 /\ upRan[1].got = NoStr
    /\ svPc = "scan-upload ocr" => Len(upRan) = 2 /\ upRan[2].got = NoStr
    /\ (svPc = "POST /api/strains/scan-upload" /\ upRan # <<>>) =>
          IF upRan[Len(upRan)].got = StageThrew THEN resStatus = 422
          ELSE IF upRan[Len(upRan)].got = NoStr
          THEN /\ resStatus = 422
               /\ \/ Len(upRan) = 3
                  \/ Len(upRan) = 2 /\ AsksNoOcr
                  \/ Len(upRan) = 1 /\ AsksFast /\ resBody.detail = "fast_path_exhausted"
          ELSE /\ resStatus \in {200, 404}
               /\ resBody.code = upRan[Len(upRan)].got

(***************************************************************************)
(* C24  Scan-upload stage order: a request tries the fast stage first,     *)
(* then the heavy stage, then the OCR; with mode=fast the heavy stage and  *)
(* the OCR never run and a fast stage that decodes nothing is answered 422 *)
(* 'fast_path_exhausted'; with skip_ocr=1 the OCR never runs; as soon as a *)
(* stage decodes a code the request is answered from that code and no      *)
(* later stage runs; every request gets exactly one answer.                *)
(***************************************************************************)
C24_StageOrder ==
    /\ [](UploadServed =>
            /\ StagesInOrder
            /\ AnsweredOnce
            /\ AsksFast => Len(upRan) <= 1
            /\ AsksNoOcr => Len(upRan) <= 2)
    /\ [][svPc = "POST /api/strains/scan-upload" /\ svPc' = svPc => reqBody' # reqBody \/ upRan' = <<>>]_vars
    /\ ((svPc \in UploadStages) ~> (svPc = "POST /api/strains/scan-upload" /\ resStatus # 0))

\* an auto request went through all three stages, and the OCR read a code
C24_Witness ==
    /\ svPc = "POST /api/strains/scan-upload"
    /\ ~AsksFast /\ ~AsksNoOcr
    /\ Len(upRan) = 3
    /\ upRan[1].got = NoStr /\ upRan[2].got = NoStr
    /\ upRan[3] = [stage |-> "ocr", got |-> TrulieveCode]
    /\ resStatus = 200
    /\ resBody.code = TrulieveCode

(***************************************************************************)
(* C25  Load before serve: the server listens only after loadDB has        *)
(* finished, whether it loaded the file or started fresh, so no handler    *)
(* reads or upserts the list before the stored strains are loaded, and     *)
(* loadDB never replaces the list after a request has changed it.          *)
(***************************************************************************)
C25_LoadBeforeServe ==
    [][/\ svPc' # "starting" => dbPc' \in {"loaded", "fresh"}
       /\ (reqBody' # reqBody \/ svUpsert' # svUpsert) => dbPc \in {"loaded", "fresh"}
       /\ dbPc' # dbPc =>
             /\ svPc = "starting"
             /\ reqBody = NoRequest
             /\ STRAINS = <<>>]_vars

\* the file was loaded, and a request then stored a strain in front of its strain
C25_Witness ==
    /\ dbPc = "loaded"
    /\ svPc = "POST /api/strains"
    /\ resStatus = 201
    /\ Len(STRAINS) = 2
    /\ STRAINS[1] = resBody
    /\ STRAINS[2] = normalizeStrain(WithCode(ScrapedStrain, TrulieveCode))

(***************************************************************************)
(* C26  Unique ids: from the empty list on, after any sequence of          *)
(* upsertStrain calls (of POST /api/strains, /api/scan, resolve with       *)
(* upsert=1 and scan-upload) no two entries of STRAINS have the same id.   *)
(***************************************************************************)
C26_UniqueIds ==
    \A i, j \in DOMAIN STRAINS : STRAINS[i].id = STRAINS[j].id => i = j

\* /api/scan stored its strain over the entry of the same id and another name
C26_Witness ==
    /\ svPc = "POST /api/scan"
    /\ resStatus = 200
    /\ Len(STRAINS) = 2
    /\ STRAINS[2] = svUpsert
    /\ svUpsert.id = <<"b", "l", "u", "e", "d", "r", "e", "a", "m">>
    /\ STRAINS[1].id = <<"u", "n", "k", "n", "o", "w", "n", "s", "t", "r", "a", "i", "n">>

(***************************************************************************)
(* C27  Upsert frame: upsertStrain(s) with an id in the list replaces that *)
(* entry where it is and leaves the length and every other entry as they   *)
(* were; with an id not in the list it inserts s at the front and keeps    *)
(* the other entries in their order; no operation of the server removes an *)
(* entry, so the length of the list never decreases.                       *)
(***************************************************************************)
C27_UpsertFrame ==
    [][/\ Len(STRAINS') >= Len(STRAINS)
       /\ (svUpsert' # NoRequest /\ (\E i \in DOMAIN STRAINS : STRAINS[i].id = svUpsert'.id)) =>
             /\ Len(STRAINS') = Len(STRAINS)
             /\ \A i \in DOMAIN STRAINS :
                   STRAINS'[i] = IF STRAINS[i].id = svUpsert'.id THEN svUpsert' ELSE STRAINS[i]
       /\ (svUpsert' # NoRequest /\ ~(\E i \in DOMAIN STRAINS : STRAINS[i].id = svUpsert'.id)) =>
             STRAINS' = <<svUpsert'>> \o STRAINS
       /\ (svUpsert' = NoRequest /\ dbPc' = dbPc) => STRAINS' = STRAINS]_vars

\* resolve with upsert=1 stored the demo strain over the second of two entries
C27_Witness ==
    /\ svPc = "GET /api/strains/resolve"
    /\ resStatus = 200
    /\ Len(STRAINS) = 2
    /\ STRAINS[2] = svUpsert
    /\ svUpsert = normalizeStrain(WithCode(DemoStrain, TrulieveCode))
    /\ STRAINS[1].id = <<"b", "l", "u", "e", "d", "r", "e", "a", "m">>
    /\ dbPc = "loaded"

(***************************************************************************)
(* C28  Resolve is read-only by default: GET /api/strains/resolve changes  *)
(* the list only when the code resolves and the query has upsert=1; when   *)
(* it answers 400, 404 or 500, or when upsert is absent, the list is       *)
(* unchanged.                                                              *)
(***************************************************************************)
C28_ResolveReadOnly ==
    [][svPc' = "GET /api/strains/resolve" =>
          /\ STRAINS' # STRAINS => (resStatus' = 200 /\ reqBody'.upsert = <<"1">>)
          /\ (resStatus' \in {400, 404, 500} \/ reqBody'.upsert = Undefined) =>
                (STRAINS' = STRAINS /\ svUpsert' = NoRequest)
          /\ (resStatus' = 200 /\ reqBody'.upsert # <<"1">>) =>
                (STRAINS' = STRAINS /\ svUpsert' = NoRequest)]_vars

\* a code resolved, upsert was not 1, and the list does not have the strain
C28_Witness ==
    /\ svPc = "GET /api/strains/resolve"
    /\ resStatus = 200
    /\ reqBody.upsert = <<"t", "r", "u", "e">>
    /\ svUpsert = NoRequest
    /\ STRAINS # <<>>
    /\ \A i \in DOMAIN STRAINS : STRAINS[i].id # resBody.id

(***************************************************************************)
(* Specifications.  Each applies one group of operations to every input of *)
(* its bounded domain; the other groups stay idle.                         *)
(***************************************************************************)
InitOverflow ==
    OvInit /\ CnIdle /\ ThIdle /\ TpIdle /\ CvIdle /\ LnIdle /\ JwIdle /\ CoIdle /\ SvIdle

SpecOverflow == InitOverflow /\ [][OvNext]_vars

InitCanon ==
    CnInit /\ OvIdle /\ ThIdle /\ TpIdle /\ CvIdle /\ LnIdle /\ JwIdle /\ CoIdle /\ SvIdle

SpecCanon == InitCanon /\ [][CnNext]_vars

InitTHC ==
    ThInit /\ OvIdle /\ CnIdle /\ TpIdle /\ CvIdle /\ LnIdle /\ JwIdle /\ CoIdle /\ SvIdle

SpecTHC == InitTHC /\ [][ThNext]_vars

InitTerp ==
    TpInit /\ OvIdle /\ CnIdle /\ ThIdle /\ CvIdle /\ LnIdle /\ JwIdle /\ CoIdle /\ SvIdle

SpecTerp == InitTerp /\ [][TpNext]_vars

InitConv ==
    CvInit /\ OvIdle /\ CnIdle /\ ThIdle /\ TpIdle /\ LnIdle /\ JwIdle /\ CoIdle /\ SvIdle

SpecConv == InitConv /\ [][CvNext]_vars

InitLine ==
    LnInit /\ OvIdle /\ CnIdle /\ ThIdle /\ TpIdle /\ CvIdle /\ JwIdle /\ CoIdle /\ SvIdle

SpecLine == InitLine /\ [][LnNext]_vars

InitJoin ==
    JwInit /\ OvIdle /\ CnIdle /\ ThIdle /\ TpIdle /\ CvIdle /\ LnIdle /\ CoIdle /\ SvIdle

SpecJoin == InitJoin /\ [][JwNext]_vars

InitCoa ==
    CoInit /\ OvIdle /\ CnIdle /\ ThIdle /\ TpIdle /\ CvIdle /\ LnIdle /\ JwIdle /\ SvIdle

SpecCoa == InitCoa /\ [][CoNext]_vars

InitServer ==
    SvInit /\ OvIdle /\ CnIdle /\ ThIdle /\ TpIdle /\ CvIdle /\ LnIdle /\ JwIdle /\ CoIdle

SpecServer == InitServer /\ [][SvNext]_vars

InitListing ==
    LsInit /\ OvIdle /\ CnIdle /\ ThIdle /\ TpIdle /\ CvIdle /\ LnIdle /\ JwIdle /\ CoIdle

SpecListing == InitListing /\ [][LsNext]_vars

\* a stage of a scan-upload request ends: its loops are bounded and so is its time
SpecServerFair ==
    SpecServer /\ WF_vars(UploadFast) /\ WF_vars(UploadHeavy) /\ WF_vars(UploadOcr)
====
